---------------------------- MODULE Spec2Model ----------------------------
(***************************************************************************)
(* search-bot-rs: the live ingestion pipeline (src/es/indexer.rs: the      *)
(* bounded channel, BatchIndexer::index, flush_loop, flush_buffer) and the *)
(* MongoDB -> Elasticsearch backfill (src/bin/migrate.rs: main,            *)
(* get_groups_with_earliest_messages, parse_mongo_document, bulk_index),   *)
(* both writing to one Elasticsearch index keyed by "{chat_id}_{msg_id}".  *)
(***************************************************************************)
EXTENDS Integers, Sequences, FiniteSets, TLC

(* ------------------------------ bounds -------------------------------- *)
\* Largest indexer.batch_size / migration.batch_size a run is configured with.
MaxBatchSize == 2
\* Number of messages the producers hand to BatchIndexer::index in a run.
MaxMsgs == 5
\* Largest message_id of a legacy or pre-existing document.
MaxSeq == 3
\* Largest number of documents in the legacy collection.
MaxLegacy == 3
\* Number of failures the stores may answer with during the migration runs.
MaxFaults == 1
\* Number of times the migration tool is started.
MaxRuns == 2

\* Number of non-success answers Elasticsearch gives to the live path in a run.
MaxLiveFaults == 1
\* Number of messages the bot records while the migration tool runs.
MaxShared == 1

\* The call sites of BatchIndexer::index: one update handler per group chat.
Producers == {"p1", "p2"}
Chats == {-1, 2}
ChatOf(p) == IF p = "p1" THEN -1 ELSE 2
None == "none"

VARIABLES
    \* ---- live path (src/es/indexer.rs)
    batch_size,      \* indexer.batch_size
    tx_alive,        \* a Sender of the channel still exists
    chan,            \* the mpsc channel's queue
    ppc,             \* per producer: position inside BatchIndexer::index
    pmsg,            \* per producer: <<the message its send() holds>>, else <<>>
    msg_limit,       \* number of messages the run hands to index
    created,         \* number of ChatMessages constructed so far
    fpc,             \* position of flush_loop
    buffer,          \* flush_loop's buffer
    body,            \* the bulk body of the request in flight
    tick_ready,      \* the interval has a tick to deliver
    requests,        \* history: the batches the live path submitted
    live_faults,     \* number of non-success answers given to the live path
    \* ---- migration tool (src/bin/migrate.rs)
    m_batch_size,    \* migration.batch_size
    dry_run,         \* migration.dry_run
    legacy,          \* the MongoDB collection
    mpc,             \* position of main
    groups,          \* the watermark list of get_groups_with_earliest_messages
    idx,             \* index of the group the scope loop is at
    cursor,          \* documents the open cursor has not yielded yet
    batch,           \* main's batch
    group_migrated,
    group_errors,
    total_migrated,
    total_errors,
    run,             \* number of the current run of the tool
    faults,          \* number of failures the stores answered with so far
    run_faults,      \* number of failures answered to the current run
    run_wrote,       \* the current run had a document accepted by the index
    fetch_failed,    \* history: the current run had a cursor fetch error
    yielded,         \* history: items the current scope's cursor yielded
    batched,         \* history: the messages this run pushed to a batch
    attempts,        \* history: the batches this run handed to bulk_index
    answers,         \* history: how each of these calls was answered and returned
    resolved,        \* history: how this run's watermark query was answered
    counted,         \* history: documents this run counted as parse/fetch error
    scope_log,       \* history: this run's "Group complete" report lines
    first_groups,    \* history: the watermark list of the first run
    prev,            \* history: how the previous run ended (clean: a complete real
                     \* run without failure or error); dry: what it reported
                     \* when it was a dry run that finished without a failing store call
    \* ---- the Elasticsearch index
    store,           \* _id -> document
    writes,          \* history: the index at the start, the accepted items since
    call_args,       \* arguments of the pure function under test
    call_result,     \* its results, <<>> before the call
    send_failed,     \* history: the messages whose send() returned Err
    \* ---- search and user cache (src/bot/callback.rs, src/models/user_cache.rs)
    sent,            \* the result messages the bot sent, each replying to a command
    queries,         \* history: the searches SearchClient::search issued
    user_cache,      \* UserCache: name_to_id and id_to_info
    owner,           \* history: lowercase username -> the user last updated with it
    keyboard         \* the result message on display: its result, state and button rows

liveVars == <<batch_size, msg_limit, tx_alive, chan, ppc, pmsg, created, fpc, buffer,
              body, tick_ready, requests, live_faults>>
migVars == <<m_batch_size, dry_run, legacy, mpc, groups, idx, cursor, batch,
             group_migrated, group_errors, total_migrated, total_errors, run,
             faults, run_faults, run_wrote, fetch_failed, yielded, batched, attempts, answers,
             resolved, counted,
             scope_log, first_groups, prev>>
callVars == <<call_args, call_result, send_failed>>
botVars == <<sent, queries, user_cache, owner, keyboard>>
vars == <<liveVars, migVars, store, writes, callVars, botVars>>

(* --------------------------- pure functions --------------------------- *)
\* Mutant: the identifier without the separator.
DocId_nosep(chat_id, message_id) == ToString(chat_id) \o ToString(message_id)

\* flush_buffer: format!("{}_{}", msg.chat_id, msg.message_id)
DocId(chat_id, message_id) == ToString(chat_id) \o "_" \o ToString(message_id)

\* bulk_index: format!("{}_{}", msg.chat_id, msg.message_id)
doc_id(chat_id, message_id) == ToString(chat_id) \o "_" \o ToString(message_id)

\* Mutant: one slot more than 4 x batch_size.
Capacity_plus1(bs) == bs * 4 + 1

\* mpsc::channel::<ChatMessage>(batch_size * 4)
Capacity(bs) == bs * 4

\* record_message: the ChatMessage built for the n-th recorded message.
ChatMessage(chat, n) ==
    [message_id |-> n, chat_id |-> chat, text |-> "live", message_type |-> "text",
     username |-> None]

\* flush_buffer's loop: an action line and a document line per message.
RECURSIVE BuildBody(_)
BuildBody(msgs) ==
    IF msgs = <<>> THEN <<>>
    ELSE <<[line |-> "index", id |-> DocId(Head(msgs).chat_id, Head(msgs).message_id)],
           [line |-> "doc", doc |-> Head(msgs)]>> \o BuildBody(Tail(msgs))

\* flush_buffer's loop over messages i, i+1, ... of msgs when
\* serde_json::to_value returns Err for the messages at the positions in bad:
\* the action line is pushed, the error is logged, and the loop continues.
RECURSIVE flush_body(_, _, _)
flush_body(msgs, i, bad) ==
    IF i > Len(msgs) THEN <<>>
    ELSE <<[line |-> "index", id |-> DocId(msgs[i].chat_id, msgs[i].message_id)]>>
           \o (IF i \in bad THEN <<>> ELSE <<[line |-> "doc", doc |-> msgs[i]]>>)
           \o flush_body(msgs, i + 1, bad)

\* Mutant: the index action never replaces a document.
Upsert_create(st, id, doc) ==
    [k \in DOMAIN st \cup {id} |-> IF k \in DOMAIN st THEN st[k] ELSE doc]

\* Elasticsearch's index action: create or replace the document under _id.
Upsert(st, id, doc) ==
    [k \in DOMAIN st \cup {id} |-> IF k = id THEN doc ELSE st[k]]

\* Elasticsearch's _bulk: the items in order, item i rejected when i \in failed.
RECURSIVE ApplyBulk(_, _, _, _)
ApplyBulk(st, b, i, failed) ==
    IF 2 * i > Len(b) THEN st
    ELSE ApplyBulk(IF i \in failed THEN st
                   ELSE Upsert(st, b[2 * i - 1].id, b[2 * i].doc),
                   b, i + 1, failed)


(* ------------------------- live path: producers ----------------------- *)
\* BatchIndexer::index, up to the await of self.sender.send(msg).
IndexCall(p) ==
    /\ ppc[p] = "idle"
    /\ tx_alive
    /\ created < msg_limit
    /\ created' = created + 1
    /\ pmsg' = [pmsg EXCEPT ![p] = <<ChatMessage(ChatOf(p), created + 1)>>]
    /\ ppc' = [ppc EXCEPT ![p] = "send"]
    /\ UNCHANGED <<batch_size, msg_limit, tx_alive, chan, fpc, buffer, body, tick_ready,
                   requests, live_faults, store, writes, migVars, callVars, botVars>>

\* send(msg) completes: the channel has a free slot and the receiver lives.
IndexSend(p) ==
    /\ ppc[p] = "send"
    /\ fpc \notin {"returned", "cancelled"}
    /\ Len(chan) < Capacity(batch_size)
    /\ chan' = Append(chan, pmsg[p][1])
    /\ pmsg' = [pmsg EXCEPT ![p] = <<>>]
    /\ ppc' = [ppc EXCEPT ![p] = "idle"]
    /\ UNCHANGED <<batch_size, msg_limit, tx_alive, created, fpc, buffer, body, tick_ready,
                   requests, live_faults, store, writes, migVars, callVars, botVars>>

\* Mutant: index unwraps the result of send.
IndexSendClosed_panic(p) ==
    /\ ppc[p] = "send"
    /\ fpc \in {"returned", "cancelled"}
    /\ send_failed' = Append(send_failed, pmsg[p][1])
    /\ pmsg' = [pmsg EXCEPT ![p] = <<>>]
    /\ ppc' = [ppc EXCEPT ![p] = "panicked"]
    /\ UNCHANGED <<batch_size, msg_limit, tx_alive, chan, created, fpc, buffer, body,
                   tick_ready, requests, live_faults, store, writes, migVars,
                   call_args, call_result, botVars>>

\* send(msg) returns Err(SendError(msg)): the Receiver is gone. index logs the
\* warning and returns; the message is dropped with the error.
IndexSendClosed(p) ==
    /\ ppc[p] = "send"
    /\ fpc \in {"returned", "cancelled"}
    /\ send_failed' = Append(send_failed, pmsg[p][1])
    /\ pmsg' = [pmsg EXCEPT ![p] = <<>>]
    /\ ppc' = [ppc EXCEPT ![p] = "idle"]
    /\ UNCHANGED <<batch_size, msg_limit, tx_alive, chan, created, fpc, buffer, body,
                   tick_ready, requests, live_faults, store, writes, migVars,
                   call_args, call_result, botVars>>

\* The last Arc<BatchIndexer> is dropped: the producer side of the channel closes.
\* A producer inside index() holds the Arc, so none is sending at that moment.
Close ==
    /\ tx_alive
    /\ \A p \in Producers : ppc[p] = "idle"
    /\ tx_alive' = FALSE
    /\ UNCHANGED <<batch_size, msg_limit, chan, ppc, pmsg, created, fpc, buffer, body,
                   tick_ready, requests, live_faults, store, writes, migVars, callVars, botVars>>

(* ------------------------- live path: flush_loop ---------------------- *)
\* Where flush_loop continues after flush_buffer returns.
AfterFlush(at) == IF at = "flush_closed" THEN "returned" ELSE "select"

\* Mutant: the buffer is copied into the body and not drained.
flush_buffer_keep(buf, at) ==
    /\ buffer' = buf
    /\ body' = BuildBody(buf)
    /\ requests' = Append(requests, buf)
    /\ fpc' = at

\* flush_buffer up to the await of the bulk request: drain the buffer into the
\* body; an empty body returns at once.
flush_buffer(buf, at) ==
    /\ buffer' = <<>>
    /\ IF BuildBody(buf) = <<>>
       THEN /\ body' = <<>>
            /\ requests' = requests
            /\ fpc' = AfterFlush(at)
       ELSE /\ body' = BuildBody(buf)
            /\ requests' = Append(requests, buf)
            /\ fpc' = at

\* tick.tick().await before the loop: the interval's immediate first tick.
FirstTick ==
    /\ fpc = "first_tick"
    /\ fpc' = "select"
    /\ UNCHANGED <<batch_size, msg_limit, tx_alive, chan, ppc, pmsg, created, buffer, body,
                   tick_ready, requests, live_faults, store, writes, migVars, callVars, botVars>>

\* flush_interval_ms elapses: the interval has a tick to deliver.
TimerElapse ==
    /\ fpc \notin {"first_tick", "returned", "cancelled"}
    /\ ~tick_ready
    /\ tick_ready' = TRUE
    /\ UNCHANGED <<batch_size, msg_limit, tx_alive, chan, ppc, pmsg, created, fpc, buffer,
                   body, requests, live_faults, store, writes, migVars, callVars, botVars>>

\* Mutant: the size threshold compared with > instead of >=.
RecvSome_gt ==
    /\ fpc = "select"
    /\ chan # <<>>
    /\ chan' = Tail(chan)
    /\ IF Len(buffer) + 1 > batch_size
       THEN flush_buffer(Append(buffer, Head(chan)), "flush_recv")
       ELSE /\ buffer' = Append(buffer, Head(chan))
            /\ UNCHANGED <<body, requests, fpc>>
    /\ UNCHANGED <<batch_size, msg_limit, tx_alive, ppc, pmsg, created, tick_ready,
                   live_faults, store, writes, migVars, callVars, botVars>>

\* Mutant: a received message is put in front of the buffered ones.
RecvSome_front ==
    /\ fpc = "select"
    /\ chan # <<>>
    /\ chan' = Tail(chan)
    /\ IF Len(buffer) + 1 >= batch_size
       THEN flush_buffer(<<Head(chan)>> \o buffer, "flush_recv")
       ELSE /\ buffer' = <<Head(chan)>> \o buffer
            /\ UNCHANGED <<body, requests, fpc>>
    /\ UNCHANGED <<batch_size, msg_limit, tx_alive, ppc, pmsg, created, tick_ready,
                   live_faults, store, writes, migVars, callVars, botVars>>

\* Mutant: flush_buffer is spawned and not awaited, so the loop receives while
\* a request is in flight.
RecvSome_spawned ==
    /\ fpc \in {"select", "flush_recv", "flush_tick"}
    /\ chan # <<>>
    /\ chan' = Tail(chan)
    /\ IF Len(buffer) + 1 >= batch_size
       THEN flush_buffer(Append(buffer, Head(chan)), "flush_recv")
       ELSE /\ buffer' = Append(buffer, Head(chan))
            /\ UNCHANGED <<body, requests, fpc>>
    /\ UNCHANGED <<batch_size, msg_limit, tx_alive, ppc, pmsg, created, tick_ready,
                   live_faults, store, writes, migVars, callVars, botVars>>

\* select!: rx.recv() yields Some(m).
RecvSome ==
    /\ fpc = "select"
    /\ chan # <<>>
    /\ chan' = Tail(chan)
    /\ IF Len(buffer) + 1 >= batch_size
       THEN flush_buffer(Append(buffer, Head(chan)), "flush_recv")
       ELSE /\ buffer' = Append(buffer, Head(chan))
            /\ UNCHANGED <<body, requests, fpc>>
    /\ UNCHANGED <<batch_size, msg_limit, tx_alive, ppc, pmsg, created, tick_ready, live_faults, store, writes, migVars, callVars, botVars>>

\* Mutant: the loop returns on a closed channel without the final flush.
RecvNone_noflush ==
    /\ fpc = "select"
    /\ chan = <<>>
    /\ ~tx_alive
    /\ fpc' = "returned"
    /\ UNCHANGED <<buffer, body, requests>>
    /\ UNCHANGED <<batch_size, msg_limit, tx_alive, chan, ppc, pmsg, created, tick_ready,
                   live_faults, store, writes, migVars, callVars, botVars>>

\* select!: rx.recv() yields None (every sender dropped and the queue empty).
RecvNone ==
    /\ fpc = "select"
    /\ chan = <<>>
    /\ ~tx_alive
    /\ IF buffer # <<>>
       THEN flush_buffer(buffer, "flush_closed")
       ELSE /\ fpc' = "returned"
            /\ UNCHANGED <<buffer, body, requests>>
    /\ UNCHANGED <<batch_size, msg_limit, tx_alive, chan, ppc, pmsg, created, tick_ready,
                   live_faults, store, writes, migVars, callVars, botVars>>

\* Mutant: a tick flushes only a buffer that reached the size threshold.
Tick_sized ==
    /\ fpc = "select"
    /\ tick_ready
    /\ tick_ready' = FALSE
    /\ IF Len(buffer) >= batch_size
       THEN flush_buffer(buffer, "flush_tick")
       ELSE UNCHANGED <<buffer, body, requests, fpc>>
    /\ UNCHANGED <<batch_size, msg_limit, tx_alive, chan, ppc, pmsg, created, live_faults,
                   store, writes, migVars, callVars, botVars>>

\* select!: tick.tick() completes.
Tick ==
    /\ fpc = "select"
    /\ tick_ready
    /\ tick_ready' = FALSE
    /\ IF buffer # <<>>
       THEN flush_buffer(buffer, "flush_tick")
       ELSE UNCHANGED <<buffer, body, requests, fpc>>
    /\ UNCHANGED <<batch_size, msg_limit, tx_alive, chan, ppc, pmsg, created, live_faults, store, writes, migVars, callVars, botVars>>

\* The answers Elasticsearch can give to a bulk request of n items.
BulkOutcomes(n) ==
    [kind : {"send_err", "bad_status", "bad_json"}, failed : {{}}]
        \cup [kind : {"ok"}, failed : SUBSET (1 .. n)]

\* An answer other than "every item indexed".
IsFault(o) == o.kind # "ok" \/ o.failed # {}

\* History: the items of msgs Elasticsearch accepted under outcome o, appended
\* to the log of accepted items.
Logged(msgs, o) ==
    [writes EXCEPT !.log =
        @ \o IF o.kind \in {"send_err", "bad_status"} THEN <<>>
             ELSE SelectSeq([i \in 1 .. Len(msgs) |-> [item |-> i, doc |-> msgs[i]]],
                            LAMBDA e : e.item \notin o.failed)]

\* What the index holds after the request b was answered with outcome o.
StoreAfter(st, b, o) ==
    IF o.kind \in {"send_err", "bad_status"} THEN st
    ELSE ApplyBulk(st, b, 1, o.failed)

\* Mutant: the records of a batch that was not indexed in full go back to the
\* buffer.
BulkResponse_rebuffer ==
    /\ fpc \in {"flush_recv", "flush_tick", "flush_closed"}
    /\ \E o \in BulkOutcomes(Len(body) \div 2) :
           /\ IsFault(o) => live_faults < MaxLiveFaults
           /\ live_faults' = IF IsFault(o) THEN live_faults + 1 ELSE live_faults
           /\ store' = StoreAfter(store, body, o)
           /\ writes' = Logged(requests[Len(requests)], o)
           /\ buffer' = IF IsFault(o) THEN requests[Len(requests)] ELSE buffer
    /\ body' = <<>>
    /\ fpc' = AfterFlush(fpc)
    /\ UNCHANGED <<batch_size, msg_limit, tx_alive, chan, ppc, pmsg, created,
                   tick_ready, requests, migVars, callVars, botVars>>

\* flush_buffer from the answer of the bulk request on: every branch only logs.
BulkResponse ==
    /\ fpc \in {"flush_recv", "flush_tick", "flush_closed"}
    /\ \E o \in BulkOutcomes(Len(body) \div 2) :
           /\ IsFault(o) => live_faults < MaxLiveFaults
           /\ live_faults' = IF IsFault(o) THEN live_faults + 1 ELSE live_faults
           /\ store' = StoreAfter(store, body, o)
           /\ writes' = Logged(requests[Len(requests)], o)
    /\ body' = <<>>
    /\ fpc' = AfterFlush(fpc)
    /\ UNCHANGED <<batch_size, msg_limit, tx_alive, chan, ppc, pmsg, created, buffer,
                   tick_ready, requests, migVars, callVars, botVars>>

\* The spawned flush_loop task is dropped at one of its awaits (the runtime
\* shuts down, or the task panics): the Receiver, the messages still queued
\* and the buffer are dropped with it. A request in flight has reached
\* Elasticsearch or it has not.
Cancel ==
    /\ fpc \notin {"returned", "cancelled"}
    /\ fpc' = "cancelled"
    /\ chan' = <<>>
    /\ buffer' = <<>>
    /\ body' = <<>>
    /\ IF body # <<>>
       THEN \E o \in {[kind |-> "send_err", failed |-> {}], [kind |-> "ok", failed |-> {}]} :
               /\ store' = StoreAfter(store, body, o)
               /\ writes' = Logged(requests[Len(requests)], o)
       ELSE UNCHANGED <<store, writes>>
    /\ UNCHANGED <<batch_size, msg_limit, tx_alive, ppc, pmsg, created, tick_ready,
                   requests, live_faults, migVars, callVars, botVars>>

EmptyStore == [k \in {} |-> None]

\* BatchIndexer::new: the channel is open and empty, flush_loop is spawned.
LiveStart ==
    /\ tx_alive = TRUE
    /\ chan = <<>>
    /\ ppc = [p \in Producers |-> "idle"]
    /\ pmsg = [p \in Producers |-> <<>>]
    /\ created = 0
    /\ fpc = "first_tick"
    /\ buffer = <<>>
    /\ body = <<>>
    /\ tick_ready = FALSE
    /\ requests = <<>>
    /\ live_faults = 0

LiveInit ==
    /\ batch_size \in 1 .. MaxBatchSize
    /\ msg_limit = MaxMsgs
    /\ LiveStart

LiveNext ==
    \/ \E p \in Producers : IndexCall(p)
    \/ \E p \in Producers : IndexSend(p)
    \/ Close
    \/ FirstTick
    \/ TimerElapse
    \/ RecvSome
    \/ RecvNone
    \/ Tick
    \/ BulkResponse


(* --------------------- migration: pure functions ---------------------- *)
Min(S) == CHOOSE x \in S : \A y \in S : x <= y

\* The sequences that list every element of S once.
Orderings(S) ==
    {q \in [1 .. Cardinality(S) -> S] : \A i, j \in DOMAIN q : i # j => q[i] # q[j]}

RECURSIVE Flatten(_)
Flatten(ss) == IF ss = <<>> THEN <<>> ELSE Head(ss) \o Flatten(Tail(ss))

\* Number of places of the sequence q that hold x.
Occurrences(q, x) == Cardinality({i \in DOMAIN q : q[i] = x})

\* A BotLog document of the legacy collection: group_id (an Int64),
\* msg_ctx.message_id (an Int32 or Int64), msg_type and timestamp (<<>> when the
\* document has no date/timestamp field); no top-level message_id.
LegacyDoc(g, n, t, ts) ==
    [group_id |-> g, message_id |-> n, ctx_type |-> "int", top_message_id |-> <<>>,
     msg_type |-> t, timestamp |-> ts]

\* A photo whose msg_ctx.message_id is the BSON Double n and which carries the
\* top-level Int64 message_id top.
DoubleIdDoc(g, n, top) ==
    [group_id |-> g, message_id |-> n, ctx_type |-> "double", top_message_id |-> <<top>>,
     msg_type |-> 1, timestamp |-> <<1900>>]

\* The legacy documents of the model: for chat -1 a photo and a photo without
\* a date under every message_id, a second log of photo 1, a text message and
\* a photo with a Double msg_ctx.message_id; for chat 2 one photo.
LegacyUniverse ==
    {LegacyDoc(-1, n, 1, <<1700>>) : n \in 1 .. MaxSeq}
        \cup {LegacyDoc(-1, n, 1, <<>>) : n \in 1 .. MaxSeq}
        \cup {LegacyDoc(-1, 1, 1, <<1800>>), LegacyDoc(-1, 1, 0, <<1700>>)}
        \cup {DoubleIdDoc(-1, 1, MaxSeq)}
        \cup {LegacyDoc(2, 1, 1, <<1700>>)}

\* The collections of the model: at most MaxLegacy documents.
LegacyCollections ==
    {L \in SUBSET LegacyUniverse : Cardinality(L) <= MaxLegacy}

\* Mutant: the filter's bound is $lte instead of $lt.
Matches_le(doc, group) ==
    /\ doc.group_id = group.chat_id
    /\ doc.message_id <= group.earliest_message_id
    /\ doc.msg_type = 1

\* main's filter: group_id = chat_id, msg_ctx.message_id < earliest_message_id,
\* msg_type = 1.
Matches(doc, group) ==
    /\ doc.group_id = group.chat_id
    /\ doc.message_id < group.earliest_message_id
    /\ doc.msg_type = 1

\* parse_mongo_document's message_id chain: msg_ctx.message_id when get_i64 or
\* get_i32 accepts it, else the top-level message_id, else nothing.
ParsedMessageId(doc) ==
    IF doc.ctx_type = "int" THEN <<doc.message_id>> ELSE doc.top_message_id

\* parse_mongo_document: Err when the message_id or the date is missing, else
\* the MongoMessage.
parse_mongo_document(doc) ==
    IF ParsedMessageId(doc) = <<>> \/ doc.timestamp = <<>>
    THEN [ok |-> FALSE]
    ELSE [ok |-> TRUE,
          msg |-> [message_id |-> ParsedMessageId(doc)[1], chat_id |-> doc.group_id,
                   text |-> "legacy", date |-> doc.timestamp[1],
                   message_type |-> ToString(doc.msg_type)]]

\* impl From<MongoMessage> for EsMessage (the modelled dates are in seconds).
EsMessage(mongo_msg) ==
    [message_id |-> mongo_msg.message_id, chat_id |-> mongo_msg.chat_id,
     text |-> mongo_msg.text, date |-> mongo_msg.date, message_type |-> "text"]

\* bulk_index's loop: an action line and a document line per message.
RECURSIVE bulk_index_body(_)
bulk_index_body(messages) ==
    IF messages = <<>> THEN <<>>
    ELSE <<[line |-> "index",
            id |-> doc_id(Head(messages).chat_id, Head(messages).message_id)],
           [line |-> "doc", doc |-> Head(messages)]>>
             \o bulk_index_body(Tail(messages))

\* Mutant: bulk_index ignores the per-item errors of the response.
bulk_index_all(n, o) ==
    IF o.kind = "ok" THEN [ok |-> TRUE, count |-> n] ELSE [ok |-> FALSE, count |-> 0]

\* Mutant: bulk_index turns a failed request into Ok(0).
bulk_index_swallow(n, o) ==
    [ok |-> TRUE, count |-> IF o.kind = "ok" THEN n - Cardinality(o.failed) ELSE 0]

\* Mutant: bulk_index reports no accepted message.
bulk_index_none(n, o) == [ok |-> o.kind = "ok", count |-> 0]

\* bulk_index's result for n messages answered with outcome o; for no message
\* it returns Ok(0) before any request is built.
bulk_index(n, o) ==
    IF n = 0 THEN [ok |-> TRUE, count |-> 0]
    ELSE IF o.kind = "ok"
    THEN [ok |-> TRUE, count |-> n - Cardinality(o.failed)]
    ELSE [ok |-> FALSE, count |-> 0]

\* The terms/min aggregation of get_groups_with_earliest_messages.
Buckets(st) ==
    {[chat_id |-> c,
      earliest_message_id |->
          Min({st[k].message_id : k \in {j \in DOMAIN st : st[j].chat_id = c}})]
        : c \in {st[k].chat_id : k \in DOMAIN st}}

(* ------------------------- migration: main ---------------------------- *)
migConf == <<m_batch_size, dry_run, legacy, run, first_groups, prev>>
scopeLocals == <<cursor, batch, group_migrated, group_errors, yielded>>
totals == <<total_migrated, total_errors, scope_log>>
runHist == <<batched, attempts, answers, counted, fetch_failed>>
faultVars == <<faults, run_faults>>

\* The scope loop's variables as a new iteration declares them.
ResetLocals ==
    /\ cursor' = {}
    /\ batch' = <<>>
    /\ group_migrated' = 0
    /\ group_errors' = 0
    /\ yielded' = 0

\* `continue` / the end of the loop body: the next group, or the final report.
NextScope ==
    IF idx < Len(groups)
    THEN idx' = idx + 1 /\ mpc' = "count"
    ELSE idx' = idx /\ mpc' = "done"

\* Lines 252-256: the "Group complete" line and the run-wide totals.
EndScope(gm, ge) ==
    /\ scope_log' = Append(scope_log,
                      [chat_id |-> groups[idx].chat_id, migrated |-> gm,
                       errors |-> ge, yielded |-> yielded])
    /\ total_migrated' = total_migrated + gm
    /\ total_errors' = total_errors + ge
    /\ ResetLocals
    /\ NextScope

\* One more failure answered by a store.
Fault ==
    /\ faults < MaxFaults
    /\ faults' = faults + 1
    /\ run_faults' = run_faults + 1

\* `?` in main: the run ends with the error.
Abort ==
    /\ mpc' = "failed"
    /\ resolved' = IF mpc = "start" THEN "err" ELSE resolved
    /\ UNCHANGED <<migConf, groups, idx, scopeLocals, totals, runHist, run_wrote,
                   store, writes, liveVars, callVars, botVars>>

\* get_groups_with_earliest_messages answered with a success status.
Resolve ==
    /\ mpc = "start"
    /\ resolved' = "ok"
    /\ \E gs \in Orderings(Buckets(store)) :
           /\ groups' = gs
           /\ first_groups' = IF run = 1 THEN gs ELSE first_groups
           /\ IF gs = <<>>
              THEN mpc' = "done" /\ idx' = 0
              ELSE mpc' = "count" /\ idx' = 1
    /\ UNCHANGED <<m_batch_size, dry_run, legacy, run, prev, scopeLocals, totals,
                   runHist, faultVars, run_wrote, store, writes, liveVars, callVars, botVars>>

\* Mutant: a 404 answer is treated like any other non-success status.
Resolve404_bail ==
    /\ mpc = "start"
    /\ resolved' = "404"
    /\ DOMAIN store = {}
    /\ mpc' = "failed"
    /\ UNCHANGED <<migConf, groups, idx, scopeLocals, totals, runHist, faultVars,
                   run_wrote, store, writes, liveVars, callVars, botVars>>

\* get_groups_with_earliest_messages answered 404: the index does not exist.
Resolve404 ==
    /\ mpc = "start"
    /\ resolved' = "404"
    /\ DOMAIN store = {}
    /\ groups' = <<>>
    /\ first_groups' = IF run = 1 THEN <<>> ELSE first_groups
    /\ mpc' = "done"
    /\ idx' = 0
    /\ UNCHANGED <<m_batch_size, dry_run, legacy, run, prev, scopeLocals, totals,
                   runHist, faultVars, run_wrote, store, writes, liveVars, callVars, botVars>>

\* Mutant: the failed query is logged and main goes on with the groups found.
ResolveErr_continue ==
    /\ mpc = "start"
    /\ Fault
    /\ resolved' = "err"
    /\ \E gs \in Orderings(Buckets(store)) :
           /\ groups' = gs
           /\ first_groups' = IF run = 1 THEN gs ELSE first_groups
           /\ IF gs = <<>>
              THEN mpc' = "done" /\ idx' = 0
              ELSE mpc' = "count" /\ idx' = 1
    /\ UNCHANGED <<m_batch_size, dry_run, legacy, run, prev, scopeLocals, totals,
                   runHist, run_wrote, store, writes, liveVars, callVars, botVars>>

\* get_groups_with_earliest_messages fails: request error or other status.
ResolveErr ==
    /\ mpc = "start"
    /\ Fault
    /\ Abort

\* Mutant: a scope without matching documents is processed like any other.
CountDocuments_noskip ==
    /\ mpc = "count"
    /\ mpc' = "find"
    /\ idx' = idx
    /\ UNCHANGED <<resolved, migConf, groups, scopeLocals, totals, runHist, faultVars,
                   run_wrote, store, writes, liveVars, callVars, botVars>>

\* collection.count_documents(filter) answers.
CountDocuments ==
    /\ mpc = "count"
    /\ IF Cardinality({d \in legacy : Matches(d, groups[idx])}) = 0
       THEN NextScope
       ELSE mpc' = "find" /\ idx' = idx
    /\ UNCHANGED <<resolved, migConf, groups, scopeLocals, totals, runHist, faultVars,
                   run_wrote, store, writes, liveVars, callVars, botVars>>

\* collection.count_documents(filter) fails.
CountErr ==
    /\ mpc = "count"
    /\ Fault
    /\ Abort

\* collection.find(filter) sorted by msg_ctx.message_id opens the cursor.
Find ==
    /\ mpc = "find"
    /\ cursor' = {d \in legacy : Matches(d, groups[idx])}
    /\ mpc' = "next"
    /\ UNCHANGED <<resolved, migConf, groups, idx, batch, group_migrated, group_errors,
                   yielded, totals, runHist, faultVars, run_wrote, store, writes, liveVars, callVars, botVars>>

\* collection.find(filter) fails.
FindErr ==
    /\ mpc = "find"
    /\ Fault
    /\ Abort

\* Mutant: the batch is written once it is longer than batch_size.
BatchFull_gt(b) == Len(b) > m_batch_size

\* batch.len() >= config.migration.batch_size
BatchFull(b) == Len(b) >= m_batch_size

\* Mutant: a document that does not parse ends the run with the error.
NextDoc_parse_fatal ==
    /\ mpc = "next"
    /\ \E d \in cursor :
        /\ \A e \in cursor : d.message_id <= e.message_id
        /\ cursor' = cursor \ {d}
        /\ yielded' = yielded + 1
        /\ LET r == parse_mongo_document(d) IN
           IF r.ok
           THEN LET full == Append(batch, EsMessage(r.msg)) IN
                /\ batched' = Append(batched, EsMessage(r.msg))
                /\ counted' = counted
                /\ group_errors' = group_errors
                /\ IF BatchFull(full)
                   THEN IF ~dry_run
                        THEN /\ batch' = full
                             /\ attempts' = Append(attempts, full)
                             /\ mpc' = "bulk"
                             /\ group_migrated' = group_migrated
                        ELSE /\ batch' = <<>>
                             /\ attempts' = attempts
                             /\ mpc' = "next"
                             /\ group_migrated' = group_migrated + Len(full)
                   ELSE /\ batch' = full
                        /\ attempts' = attempts
                        /\ mpc' = "next"
                        /\ group_migrated' = group_migrated
           ELSE /\ group_errors' = group_errors + 1
                /\ counted' = counted \cup {d}
                /\ mpc' = "failed"
                /\ UNCHANGED <<batch, batched, attempts, group_migrated>>
    /\ UNCHANGED <<resolved, migConf, groups, idx, totals, faultVars, run_wrote, answers,
                   fetch_failed, store, writes, liveVars, callVars, botVars>>

\* cursor.next() yields Ok(doc): parse, push, and start the bulk write of a
\* full batch (counted at once in a dry run).
NextDoc ==
    /\ mpc = "next"
    /\ \E d \in cursor :
        /\ \A e \in cursor : d.message_id <= e.message_id
        /\ cursor' = cursor \ {d}
        /\ yielded' = yielded + 1
        /\ LET r == parse_mongo_document(d) IN
           IF r.ok
           THEN LET full == Append(batch, EsMessage(r.msg)) IN
                /\ batched' = Append(batched, EsMessage(r.msg))
                /\ counted' = counted
                /\ group_errors' = group_errors
                /\ IF BatchFull(full)
                   THEN IF ~dry_run
                        THEN /\ batch' = full
                             /\ attempts' = Append(attempts, full)
                             /\ mpc' = "bulk"
                             /\ group_migrated' = group_migrated
                        ELSE /\ batch' = <<>>
                             /\ attempts' = attempts
                             /\ mpc' = "next"
                             /\ group_migrated' = group_migrated + Len(full)
                   ELSE /\ batch' = full
                        /\ attempts' = attempts
                        /\ mpc' = "next"
                        /\ group_migrated' = group_migrated
           ELSE /\ group_errors' = group_errors + 1
                /\ counted' = counted \cup {d}
                /\ UNCHANGED <<batch, batched, attempts, mpc, group_migrated>>
    /\ UNCHANGED <<resolved, migConf, groups, idx, totals, faultVars, run_wrote, answers,
                   fetch_failed, store, writes, liveVars, callVars, botVars>>

\* cursor.next() yields Err(e): the error is counted. The driver then either
\* asks again ("retry"), has dropped the document it could not decode ("skip"),
\* or has closed the cursor at that document ("exhausted").
FetchErr(kind) ==
    /\ mpc = "next"
    /\ Fault
    /\ yielded' = yielded + 1
    /\ group_errors' = group_errors + 1
    /\ fetch_failed' = TRUE
    /\ \/ kind = "retry" /\ cursor' = cursor /\ counted' = counted
       \/ /\ kind = "skip"
          /\ \E d \in cursor :
                /\ \A e \in cursor : d.message_id <= e.message_id
                /\ cursor' = cursor \ {d}
                /\ counted' = counted \cup {d}
       \/ /\ kind = "exhausted"
          /\ \E d \in cursor :
                /\ \A e \in cursor : d.message_id <= e.message_id
                /\ cursor' = {}
                /\ counted' = counted \cup {d}
    /\ UNCHANGED <<resolved, migConf, groups, idx, mpc, batch, group_migrated, totals,
                   batched, attempts, answers, run_wrote, store, writes, liveVars,
                   callVars, botVars>>

\* Mutant: the remaining batch is handed to bulk_index without the is_empty
\* test.
CursorEnd_unguarded ==
    /\ mpc = "next"
    /\ cursor = {}
    /\ IF ~dry_run
       THEN /\ attempts' = Append(attempts, batch)
            /\ mpc' = "final_bulk"
            /\ UNCHANGED <<idx, scopeLocals, totals>>
       ELSE /\ attempts' = attempts
            /\ EndScope(group_migrated + Len(batch), group_errors)
    /\ UNCHANGED <<resolved, migConf, groups, batched, answers, counted, fetch_failed,
                   faultVars, run_wrote, store, writes, liveVars, callVars, botVars>>

\* cursor.next() yields None: flush the remaining batch, or end the scope.
CursorEnd ==
    /\ mpc = "next"
    /\ cursor = {}
    /\ IF batch # <<>>
       THEN IF ~dry_run
            THEN /\ attempts' = Append(attempts, batch)
                 /\ mpc' = "final_bulk"
                 /\ UNCHANGED <<idx, scopeLocals, totals>>
            ELSE /\ attempts' = attempts
                 /\ EndScope(group_migrated + Len(batch), group_errors)
       ELSE /\ attempts' = attempts
            /\ EndScope(group_migrated, group_errors)
    /\ UNCHANGED <<resolved, migConf, groups, batched, answers, counted, fetch_failed,
                   faultVars, run_wrote, store, writes, liveVars, callVars, botVars>>

\* bulk_index returns to main: Ok(count) is added to group_migrated, Err adds
\* the batch length to group_errors; a full batch is cleared, the final batch
\* ends the scope.
BulkReturn ==
    /\ mpc \in {"bulk", "final_bulk"}
    /\ \E o \in BulkOutcomes(Len(batch)) :
        LET r == bulk_index(Len(batch), o)
            gm == IF r.ok THEN group_migrated + r.count ELSE group_migrated
            ge == IF r.ok THEN group_errors ELSE group_errors + Len(batch)
        IN
        /\ IF IsFault(o) THEN Fault ELSE UNCHANGED faultVars
        /\ store' = StoreAfter(store, bulk_index_body(batch), o)
        /\ writes' = Logged(batch, o)
        /\ answers' = Append(answers, [kind |-> o.kind,
                                       failed |-> Cardinality(o.failed),
                                       result |-> r])
        /\ run_wrote' = (run_wrote \/ store' # store)
        /\ IF mpc = "bulk"
           THEN /\ group_migrated' = gm
                /\ group_errors' = ge
                /\ batch' = <<>>
                /\ mpc' = "next"
                /\ UNCHANGED <<idx, cursor, yielded, totals>>
           ELSE EndScope(gm, ge)
    /\ UNCHANGED <<resolved, migConf, groups, batched, attempts, counted, fetch_failed,
                   liveVars, callVars, botVars>>

\* The process is terminated while it runs; its memory is gone.
Kill ==
    /\ mpc \in {"count", "find", "next", "bulk", "final_bulk"}
    /\ mpc' = "killed"
    /\ groups' = <<>>
    /\ idx' = 0
    /\ ResetLocals
    /\ total_migrated' = 0
    /\ total_errors' = 0
    /\ scope_log' = <<>>
    /\ batched' = <<>>
    /\ attempts' = <<>>
    /\ answers' = <<>>
    /\ counted' = {}
    /\ fetch_failed' = FALSE
    /\ UNCHANGED <<resolved, migConf, faultVars, run_wrote, store, writes, liveVars, callVars, botVars>>

\* The "Group complete" lines of a scope log, as chat, accepted and error
\* counts.
Counts(log) ==
    {[chat_id |-> log[i].chat_id, migrated |-> log[i].migrated,
      errors |-> log[i].errors] : i \in DOMAIN log}

\* The operator starts the tool again against the same legacy collection.
Rerun ==
    /\ mpc \in {"done", "failed", "killed"}
    /\ run < MaxRuns
    /\ run' = run + 1
    /\ prev' = [end |-> mpc, wrote |-> run_wrote, faults |-> run_faults,
                clean |-> ~dry_run /\ mpc = "done" /\ run_faults = 0 /\ total_errors = 0,
                dry |-> IF dry_run /\ mpc = "done" /\ run_faults = 0
                        THEN <<[log |-> Counts(scope_log),
                                migrated |-> total_migrated,
                                errors |-> total_errors]>>
                        ELSE <<>>]
    /\ dry_run' \in BOOLEAN
    /\ mpc' = "start"
    /\ groups' = <<>>
    /\ idx' = 0
    /\ ResetLocals
    /\ total_migrated' = 0
    /\ total_errors' = 0
    /\ scope_log' = <<>>
    /\ batched' = <<>>
    /\ attempts' = <<>>
    /\ answers' = <<>>
    /\ resolved' = "none"
    /\ counted' = {}
    /\ fetch_failed' = FALSE
    /\ run_faults' = 0
    /\ run_wrote' = FALSE
    /\ UNCHANGED <<m_batch_size, legacy, first_groups, faults, store, writes, liveVars, callVars, botVars>>

\* The index holding the live messages ms.
StoreOf(ms) ==
    [k \in {DocId(m.chat_id, m.message_id) : m \in ms} |->
        CHOOSE m \in ms : DocId(m.chat_id, m.message_id) = k]

\* The index as the live path left it before the first run: nothing or one
\* message of chat -1 (the last or the one after the last legacy message_id),
\* and nothing or message 2 of chat 2.
InitStores ==
    {StoreOf(a \cup b) :
        a \in {{}} \cup {{ChatMessage(-1, n)} : n \in {MaxSeq, MaxSeq + 1}},
        b \in {{}, {ChatMessage(2, 2)}}}

\* main before its first statement.
MigStart ==
    /\ mpc = "start"
    /\ groups = <<>>
    /\ idx = 0
    /\ cursor = {}
    /\ batch = <<>>
    /\ group_migrated = 0
    /\ group_errors = 0
    /\ total_migrated = 0
    /\ total_errors = 0
    /\ run = 1
    /\ faults = 0
    /\ run_faults = 0
    /\ run_wrote = FALSE
    /\ fetch_failed = FALSE
    /\ yielded = 0
    /\ batched = <<>>
    /\ attempts = <<>>
    /\ answers = <<>>
    /\ resolved = "none"
    /\ counted = {}
    /\ scope_log = <<>>
    /\ first_groups = <<>>
    /\ prev = [end |-> "none", wrote |-> FALSE, faults |-> 0, clean |-> FALSE, dry |-> <<>>]

MigInit ==
    /\ m_batch_size \in 1 .. MaxBatchSize
    /\ dry_run \in BOOLEAN
    /\ legacy \in LegacyCollections
    /\ MigStart

MigNext ==
    \/ Resolve
    \/ Resolve404
    \/ ResolveErr
    \/ CountDocuments
    \/ CountErr
    \/ Find
    \/ FindErr
    \/ NextDoc
    \/ \E kind \in {"retry", "skip", "exhausted"} : FetchErr(kind)
    \/ CursorEnd
    \/ BulkReturn
    \/ Kill
    \/ Rerun

\* The tool alone: the live path does not run.
LiveParked ==
    /\ batch_size = 1
    /\ msg_limit = 0
    /\ tx_alive = FALSE
    /\ chan = <<>>
    /\ ppc = [p \in Producers |-> "idle"]
    /\ pmsg = [p \in Producers |-> <<>>]
    /\ created = 0
    /\ fpc = "returned"
    /\ buffer = <<>>
    /\ body = <<>>
    /\ tick_ready = FALSE
    /\ requests = <<>>
    /\ live_faults = 0

\* The bot alone: the tool is never started.
MigParked ==
    /\ MigInit
    /\ legacy = {}
    /\ m_batch_size = 1
    /\ dry_run = FALSE

\* The history starts with the index as it is and an empty log.
IndexInit(stores) ==
    /\ store \in stores
    /\ writes = [base |-> store, log |-> <<>>]

\* UserCache::new: both maps are empty.
NewCache == [name_to_id |-> <<>>, id_to_info |-> <<>>]

\* No command and no callback is handled, no user is seen.
BotParked ==
    /\ sent = {}
    /\ queries = <<>>
    /\ user_cache = NewCache
    /\ owner = <<>>
    /\ keyboard = <<>>

\* No pure function is under test.
CallParked ==
    /\ call_args = <<>>
    /\ call_result = <<>>
    /\ send_failed = <<>>
    /\ BotParked

\* The tool started against an index the bot has left.
MigSpecInit == MigInit /\ LiveParked /\ IndexInit(InitStores) /\ CallParked

MigSpec == MigSpecInit /\ [][MigNext]_vars

\* The bot started on an empty index.
LiveSpecInit == LiveInit /\ MigParked /\ IndexInit({EmptyStore}) /\ CallParked

LiveSpec == LiveSpecInit /\ [][LiveNext]_vars

\* The bot with a flush_loop task that can be dropped while handlers run.
CancelNext ==
    \/ LiveNext
    \/ Cancel
    \/ \E p \in Producers : IndexSendClosed(p)

CancelSpec == LiveSpecInit /\ [][CancelNext]_vars

\* The scheduling the runtime and the stores give the flush loop: the task is
\* polled when it can proceed, the interval keeps elapsing, bulk requests are
\* answered.
LiveFairness ==
    /\ WF_vars(FirstTick)
    /\ WF_vars(TimerElapse)
    /\ WF_vars(RecvSome)
    /\ WF_vars(RecvNone)
    /\ WF_vars(Tick)
    /\ WF_vars(BulkResponse)

FairLiveSpec == LiveSpec /\ LiveFairness

(* ------------------- the bot and the tool on one index ---------------- *)

\* The bot records MaxShared messages while the tool migrates a chat whose
\* photo 1 was logged twice; the index starts empty or with later messages.
Init ==
    /\ batch_size = 1
    /\ msg_limit = MaxShared
    /\ LiveStart
    /\ m_batch_size = MaxBatchSize
    /\ dry_run = FALSE
    /\ legacy = {LegacyDoc(-1, 1, 1, <<1700>>), LegacyDoc(-1, 1, 1, <<1800>>),
                 LegacyDoc(2, 1, 1, <<1700>>)}
    /\ MigStart
    /\ IndexInit({EmptyStore, StoreOf({ChatMessage(-1, MaxSeq), ChatMessage(2, 2)})})
    /\ CallParked

Next == LiveNext \/ MigNext

Spec == Init /\ [][Next]_vars

(* ------------------------- live path: properties ---------------------- *)
\* Number of places of the message sequence q that hold message n.
CountIn(q, n) == Cardinality({i \in DOMAIN q : q[i].message_id = n})

\* Message n is held by a producer whose send has not completed.
Pending(n) == \E p \in Producers : ppc[p] = "send" /\ pmsg[p][1].message_id = n

\* Message n went through a successful send.
Enqueued(n) == n \in 1 .. created /\ ~Pending(n)

\* flush_loop handles rx.recv() = None in this step.
ClosedStep == fpc = "select" /\ fpc' \in {"flush_closed", "returned"}

\* flush_loop receives a message in this step.
RecvStep == fpc = "select" /\ chan # <<>> /\ chan' = Tail(chan)

\* flush_loop handles a timer tick in this step.
TickStep == fpc = "select" /\ tick_ready /\ ~tick_ready'

\* This step submits exactly the bulk request q.
Submits(q) == requests' = Append(requests, q) /\ body' = BuildBody(q)

C6_ExactlyOnce ==
    /\ [](\A n \in 1 .. created :
            CountIn(chan, n) + CountIn(buffer, n) + CountIn(Flatten(requests), n)
                = IF Pending(n) THEN 0 ELSE 1)
    /\ []<>(\A n \in 1 .. created :
              Enqueued(n) => CountIn(Flatten(requests), n) = 1)

\* Every message of the run submitted, by both producers, in several requests.
C6_Witness ==
    /\ created = MaxMsgs
    /\ \A n \in 1 .. MaxMsgs : CountIn(Flatten(requests), n) = 1
    /\ \E i, j \in DOMAIN requests : requests[i][1].chat_id # requests[j][1].chat_id
    /\ live_faults > 0

\* C7: the channel never holds more than 4 x batch_size records; while it is
\* full a producer inside send() stays there with its record; and every record
\* handed to index is in the producer's hand, the channel, the buffer or a
\* request.
C7_Backpressure ==
    /\ [](Len(chan) <= 4 * batch_size)
    /\ [][\A p \in Producers :
            (ppc[p] = "send" /\ Len(chan) = 4 * batch_size) =>
                (ppc'[p] = "send" /\ pmsg'[p] = pmsg[p])]_vars
    /\ [](\A n \in 1 .. created :
            Pending(n) \/ CountIn(chan, n) + CountIn(buffer, n)
                              + CountIn(Flatten(requests), n) = 1)

\* A full channel with a producer waiting in send().
C7_Witness ==
    /\ Len(chan) = 4 * batch_size
    /\ \E p \in Producers : ppc[p] = "send"

\* C8: the receive that brings the buffer to batch_size records submits these
\* records in the same step; a receive below the threshold submits nothing.
C8_SizeTrigger ==
    [][RecvStep =>
        IF Len(buffer) + 1 >= batch_size
        THEN /\ Submits(Append(buffer, Head(chan)))
             /\ buffer' = <<>>
             /\ fpc' = "flush_recv"
        ELSE /\ buffer' = Append(buffer, Head(chan))
             /\ requests' = requests
             /\ fpc' = "select"]_vars

\* A size-triggered request of two records with no tick elapsed.
C8_Witness ==
    /\ fpc = "flush_recv"
    /\ batch_size = 2
    /\ ~tick_ready
    /\ Len(requests) = 1
    /\ Len(requests[1]) = 2

\* C9: a handled tick submits the whole buffer when it is non-empty, whatever
\* its size, and nothing when it is empty; the first immediate tick submits
\* nothing; and a non-empty buffer with an elapsed interval does get flushed.
C9_TimeTrigger ==
    /\ [][TickStep =>
            IF buffer # <<>>
            THEN Submits(buffer) /\ buffer' = <<>> /\ fpc' = "flush_tick"
            ELSE requests' = requests /\ buffer' = buffer /\ fpc' = "select"]_vars
    /\ [][fpc = "first_tick" /\ fpc' # fpc =>
            fpc' = "select" /\ requests' = requests /\ buffer' = buffer]_vars
    /\ ((buffer # <<>> /\ tick_ready) ~> buffer = <<>>)

\* A tick flushed a buffer below the size threshold.
C9_Witness ==
    /\ fpc = "flush_tick"
    /\ batch_size = 2
    /\ Len(requests) = 1
    /\ Len(requests[1]) = 1

(* ------------------------- migration: properties ---------------------- *)
\* The EsMessage the run builds from a legacy document that parses.
EsOf(d) == EsMessage(parse_mongo_document(d).msg)

\* The legacy documents main's filter selects for the group.
Selected(group) == {d \in legacy : Matches(d, group)}

\* Message m lies below the watermark of a group of the watermark list.
BelowWatermark(m) ==
    \E j \in DOMAIN groups :
        m.chat_id = groups[j].chat_id /\ m.message_id < groups[j].earliest_message_id

\* The scope the migration is to select for a group: the text messages of the
\* group whose msg_ctx.message_id is strictly below the group's watermark.
StrictlyBelow(doc, group) ==
    /\ doc.group_id = group.chat_id
    /\ doc.msg_type = 1
    /\ doc.message_id < group.earliest_message_id

\* Message m was parsed from a legacy document of the scope of a group
\* of the watermark list.
FromSelected(m) ==
    \E j \in DOMAIN groups : \E d \in legacy :
        StrictlyBelow(d, groups[j]) /\ parse_mongo_document(d).ok /\ EsOf(d) = m

\* Document d was attempted exactly once: pushed to one batch (and, in a real
\* run, handed to bulk_index once), or counted as an error.
AttemptedOnce(d) ==
    IF d \in counted
    THEN parse_mongo_document(d).ok => Occurrences(batched, EsOf(d)) = 0
    ELSE /\ parse_mongo_document(d).ok
         /\ Occurrences(batched, EsOf(d)) = 1
         /\ ~dry_run => Occurrences(Flatten(attempts), EsOf(d)) = 1

\* C1 as claimed: after a run that was interrupted or had a failure once it
\* had written documents, a later complete, error-free run leaves every legacy
\* record below the first run's watermark (matching the filter, parseable) in
\* the index.
C1_Resumable ==
    (/\ run = 2
     /\ mpc = "done"
     /\ ~dry_run
     /\ run_faults = 0
     /\ total_errors = 0
     /\ prev.wrote
     /\ prev.end = "killed" \/ prev.faults > 0)
    => \A j \in DOMAIN first_groups :
          \A d \in {e \in legacy : Matches(e, first_groups[j])} :
              parse_mongo_document(d).ok
                  => DocId(EsOf(d).chat_id, EsOf(d).message_id) \in DOMAIN store

C3_Accounting ==
    \A i \in DOMAIN scope_log :
        scope_log[i].migrated + scope_log[i].errors = scope_log[i].yielded

RECURSIVE SumOf(_, _)
SumOf(q, f) == IF q = <<>> THEN 0 ELSE Head(q)[f] + SumOf(Tail(q), f)

\* C4 as claimed: once the scope loop runs, no failure ends the run with an
\* error, and the final totals are the sums of the per-scope lines.
C4_ScopeIsolation ==
    /\ mpc = "failed" => idx = 0
    /\ mpc = "done" =>
          /\ total_migrated = SumOf(scope_log, "migrated")
          /\ total_errors = SumOf(scope_log, "errors")


(* -------------------------- the index as a map ------------------------ *)

\* The (chat_id, message_id) pairs the index was given: at the start or in an
\* accepted bulk item.
Written ==
    {<<writes.base[k].chat_id, writes.base[k].message_id>> : k \in DOMAIN writes.base}
        \cup {<<writes.log[i].doc.chat_id, writes.log[i].doc.message_id>> :
                  i \in DOMAIN writes.log}

\* The positions of the log that gave the index the pair pr.
WritesOf(pr) ==
    {i \in DOMAIN writes.log :
        <<writes.log[i].doc.chat_id, writes.log[i].doc.message_id>> = pr}

\* The payload of the latest accepted write of the pair pr.
Latest(pr) ==
    IF WritesOf(pr) = {}
    THEN CHOOSE d \in {writes.base[k] : k \in DOMAIN writes.base} :
            <<d.chat_id, d.message_id>> = pr
    ELSE writes.log[CHOOSE i \in WritesOf(pr) : \A j \in WritesOf(pr) : j <= i].doc

\* C10: the index holds exactly one document per (chat_id, message_id) pair it
\* was ever given, by the bot's batch writer, the migration's bulk writer or a
\* re-run, and that document is the payload of the latest accepted write.
C10_IdempotentUpsert ==
    /\ Cardinality(DOMAIN store) = Cardinality(Written)
    /\ \A pr \in Written :
          /\ DocId(pr[1], pr[2]) \in DOMAIN store
          /\ store[DocId(pr[1], pr[2])] = Latest(pr)

\* The same pair was accepted from the bot and from the migration, and twice
\* from the migration with different payloads, next to a pair of the other
\* chat with the same message_id.
C10_Witness ==
    \E i, j, k \in DOMAIN writes.log :
        /\ i < j
        /\ {i, j, k} \subseteq WritesOf(<<-1, 1>>)
        /\ writes.log[i].doc # writes.log[j].doc
        /\ writes.log[i].doc.text # "live"
        /\ writes.log[j].doc.text # "live"
        /\ writes.log[k].doc.text = "live"
        /\ WritesOf(<<2, 1>>) # {}
        /\ Cardinality(DOMAIN store) = 4

(* ------------------ migration against what the index holds ------------ *)

\* C12 as claimed: every message handed to bulk_index lies below the watermark
\* of its chat, and every document the index held when the first run started
\* is still there unchanged.
C12_NoOverwrite ==
    /\ \A i \in DOMAIN Flatten(attempts) : BelowWatermark(Flatten(attempts)[i])
    /\ \A k \in DOMAIN writes.base :
          k \in DOMAIN store /\ store[k] = writes.base[k]

(* --------------------------- document identity ------------------------ *)

\* The chat ids and message ids the identifier is computed for: negative and
\* positive chats, values whose digits could run into each other.
IdScopes == {-12, -1, 1, 11}
IdSeqs == {1, 2, 12}
IdPairs == IdScopes \X IdSeqs

\* Two (chat_id, message_id) pairs, no identifier computed yet.
IdInit ==
    /\ call_args \in IdPairs \X IdPairs
    /\ call_result = <<>>
    /\ send_failed = <<>>
    /\ BotParked
    /\ LiveParked
    /\ MigParked
    /\ IndexInit({EmptyStore})

\* Both writers compute the identifier of both pairs, the live writer twice.
FormatIds ==
    /\ call_result = <<>>
    /\ call_result' =
          [live |-> [i \in 1 .. 2 |-> DocId(call_args[i][1], call_args[i][2])],
           again |-> [i \in 1 .. 2 |-> DocId(call_args[i][1], call_args[i][2])],
           mig |-> [i \in 1 .. 2 |-> doc_id(call_args[i][1], call_args[i][2])]]
    /\ UNCHANGED <<call_args, send_failed, liveVars, migVars, store, writes, botVars>>

IdNext == FormatIds

IdSpec == IdInit /\ [][IdNext]_vars

\* C11: the identifier of (chat_id, message_id) is the decimal chat_id, "_" and
\* the decimal message_id; the live writer and the migration writer compute the
\* same identifier, every time; and two different pairs never get the same
\* identifier, negative chat ids included.
C11_DocumentIdentity ==
    call_result # <<>> =>
        /\ call_result.live = call_result.again
        /\ call_result.live = call_result.mig
        /\ (call_args[1] = call_args[2]) = (call_result.live[1] = call_result.live[2])
        /\ call_args[1] = <<-1, 12>> => call_result.live[1] = "-1_12"
        /\ call_args[1] = <<11, 2>> => call_result.mig[1] = "11_2"
        /\ call_args[1] = <<-12, 1>> => call_result.live[1] = "-12_1"

\* The identifiers of (1, 12) and (11, 2), whose digits agree, were computed.
C11_Witness ==
    /\ call_args = <<<<1, 12>>, <<11, 2>>>>
    /\ call_result # <<>>
    /\ call_result.live = <<"1_12", "11_2">>

(* ------------------------------- dry run ------------------------------ *)

\* A finished real run that follows, on the same index and legacy collection,
\* a dry run that finished without a failing store call.
DryThenReal ==
    /\ run = 2
    /\ mpc = "done"
    /\ ~dry_run
    /\ prev.dry # <<>>

\* The dry run and the real run report the same counts.
SameCounts ==
    /\ Counts(scope_log) = prev.dry[1].log
    /\ total_migrated = prev.dry[1].migrated
    /\ total_errors = prev.dry[1].errors

\* A dry run hands nothing to bulk_index and leaves the index as it is.
DryWritesNothing ==
    dry_run => /\ attempts = <<>>
               /\ mpc \notin {"bulk", "final_bulk"}
               /\ ~run_wrote

C14_BulkResult ==
    /\ Len(answers) <= Len(attempts)
    /\ Len(attempts) <= Len(answers) + 1
    /\ \A i \in DOMAIN attempts : attempts[i] # <<>>
    /\ \A i \in DOMAIN answers :
          /\ answers[i].kind = "ok" =>
                /\ answers[i].result.ok
                /\ answers[i].result.count = Len(attempts[i]) - answers[i].failed
          /\ answers[i].kind \in {"send_err", "bad_status"} => ~answers[i].result.ok
    /\ \A i \in DOMAIN Flatten(attempts) :
          Occurrences(Flatten(attempts), Flatten(attempts)[i]) = 1

\* A batch of two was answered with one rejected item and bulk_index returned
\* 1; the next call was answered without errors.
C14_Witness ==
    \E i, j \in DOMAIN answers :
        /\ i < j
        /\ Len(attempts[i]) = 2
        /\ answers[i] = [kind |-> "ok", failed |-> 1, result |-> [ok |-> TRUE, count |-> 1]]
        /\ answers[j] = [kind |-> "ok", failed |-> 0, result |-> [ok |-> TRUE, count |-> 1]]

\* The step in which a bulk_index call ends with a request error or a
\* non-success status.
BulkFailed ==
    /\ Len(answers') = Len(answers) + 1
    /\ answers'[Len(answers')].kind \in {"send_err", "bad_status"}

\* C15: when the bulk write of a batch fails with a request error or a
\* non-success status, the index is as before, the scope's accepted count is
\* unchanged and its error count grows by the batch length; after a full batch
\* the batch is cleared and the runner goes on with the same cursor, after the
\* final batch the scope is closed with these counts and the runner goes on
\* with the next scope; and no record of the failed batch is handed to
\* bulk_index again in this run.
C15_WholeBatchFailure ==
    /\ [][BulkFailed =>
            /\ store' = store
            /\ attempts' = attempts
            /\ batch' = <<>>
            /\ IF mpc = "bulk"
               THEN /\ group_migrated' = group_migrated
                    /\ group_errors' = group_errors + Len(batch)
                    /\ mpc' = "next"
                    /\ cursor' = cursor
                    /\ idx' = idx
               ELSE /\ Len(scope_log') = Len(scope_log) + 1
                    /\ scope_log'[Len(scope_log')].migrated = group_migrated
                    /\ scope_log'[Len(scope_log')].errors = group_errors + Len(batch)
                    /\ total_errors' = total_errors + group_errors + Len(batch)
                    /\ mpc' \in {"count", "done"}]_vars
    /\ [](\A i \in DOMAIN answers :
            answers[i].kind \in {"send_err", "bad_status"} =>
                \A k \in DOMAIN attempts[i] : \A j \in DOMAIN attempts :
                    j # i => Occurrences(attempts[j], attempts[i][k]) = 0)

\* The write of a full batch of two failed; the runner counted two errors,
\* went on with the cursor and handed the next record to bulk_index.
C15_Witness ==
    /\ Len(answers) >= 1
    /\ answers[1].kind = "send_err"
    /\ Len(attempts[1]) = 2
    /\ Len(attempts) = 2
    /\ mpc = "final_bulk"
    /\ group_errors = 2
    /\ group_migrated = 0

(* ------------------------------ batching ------------------------------ *)

\* The legacy document the message m was parsed from.
SourceDoc(m) == CHOOSE d \in legacy : parse_mongo_document(d).ok /\ EsOf(d) = m

\* The batches handed to bulk_index for chat c, and the messages parsed for it.
BatchesOf(c) == SelectSeq(attempts, LAMBDA b : b[1].chat_id = c)
ParsedOf(c) == SelectSeq(batched, LAMBDA m : m.chat_id = c)

\* C16: when a real run is complete, the batches handed to bulk_index for a
\* scope are the scope's parsed records in cursor order (ascending
\* msg_ctx.message_id), cut into ceil(n / batch_size) batches: batch_size
\* records each, the last one holding the remainder; no batch mixes chats.
\* With photos 1, 2, 3 below watermark 4 and batch_size 2 and no failing call
\* this is a batch of 2, a batch of 1, 3 accepted, 0 errors.
C16_Batching ==
    (mpc = "done" /\ ~dry_run) =>
        /\ \A i \in DOMAIN attempts : \A k \in DOMAIN attempts[i] :
              attempts[i][k].chat_id = attempts[i][1].chat_id
        /\ \A j \in DOMAIN groups :
              LET bs == BatchesOf(groups[j].chat_id)
                  ms == ParsedOf(groups[j].chat_id)
              IN /\ Flatten(bs) = ms
                 /\ Len(bs) = (Len(ms) + m_batch_size - 1) \div m_batch_size
                 /\ \A i \in DOMAIN bs :
                       /\ i < Len(bs) => Len(bs[i]) = m_batch_size
                       /\ Len(bs[i]) \in 1 .. m_batch_size
                 /\ \A a, b \in DOMAIN ms :
                       a < b => SourceDoc(ms[a]).message_id <= SourceDoc(ms[b]).message_id
        /\ (/\ legacy = {LegacyDoc(-1, n, 1, <<1700>>) : n \in 1 .. 3}
            /\ writes.base = StoreOf({ChatMessage(-1, 4)})
            /\ m_batch_size = 2
            /\ run = 1
            /\ run_faults = 0)
           => /\ attempts = <<<<EsOf(LegacyDoc(-1, 1, 1, <<1700>>)),
                                EsOf(LegacyDoc(-1, 2, 1, <<1700>>))>>,
                              <<EsOf(LegacyDoc(-1, 3, 1, <<1700>>))>>>>
              /\ Counts(scope_log) = {[chat_id |-> -1, migrated |-> 3, errors |-> 0]}
              /\ total_migrated = 3
              /\ total_errors = 0

\* The run over photos 1, 2, 3 below watermark 4 with batch_size 2 is complete.
C16_Witness ==
    /\ mpc = "done"
    /\ ~dry_run
    /\ run = 1
    /\ run_faults = 0
    /\ m_batch_size = 2
    /\ legacy = {LegacyDoc(-1, n, 1, <<1700>>) : n \in 1 .. 3}
    /\ writes.base = StoreOf({ChatMessage(-1, 4)})
    /\ Len(attempts) = 2
    /\ total_migrated = 3

(* ----------------------- live path: failed flushes -------------------- *)

\* flush_buffer returns from a bulk request in this step.
FlushEnds == fpc \in {"flush_recv", "flush_tick", "flush_closed"} /\ fpc' # fpc

\* C17: when flush_buffer returns from a bulk request, whatever the answer,
\* the buffer is empty, nothing was put back into the channel or submitted
\* again, and flush_loop is back at its select (or returns, after the final
\* flush); no record of a submitted batch is in the buffer, the channel or a
\* second request; and a flush in the running loop always gets back to the
\* select.
C17_FailureSemantics ==
    /\ [][FlushEnds =>
            /\ buffer' = <<>>
            /\ body' = <<>>
            /\ requests' = requests
            /\ chan' = chan
            /\ fpc' = IF fpc = "flush_closed" THEN "returned" ELSE "select"]_vars
    /\ [](\A n \in 1 .. created :
            CountIn(Flatten(requests), n) >= 1 =>
                /\ CountIn(Flatten(requests), n) = 1
                /\ CountIn(buffer, n) = 0
                /\ CountIn(chan, n) = 0)
    /\ (fpc \in {"flush_recv", "flush_tick"} ~> fpc = "select")

\* A bulk request failed, its record is not in the index, and flush_loop has
\* since submitted a later batch and is waiting again.
C17_Witness ==
    /\ live_faults = 1
    /\ Len(requests) >= 2
    /\ fpc = "select"
    /\ buffer = <<>>
    /\ \E k \in DOMAIN requests[1] :
          DocId(requests[1][k].chat_id, requests[1][k].message_id) \notin DOMAIN store
    /\ \E k \in DOMAIN requests[2] :
          DocId(requests[2][k].chat_id, requests[2][k].message_id) \in DOMAIN store

(* ------------------------ live path: flush order ---------------------- *)

\* The records flush_loop took from the channel: those it submitted, request
\* after request, then those it still buffers.
Handled == Flatten(requests) \o buffer

\* C18: every receive appends exactly the channel's oldest record to the
\* records submitted and buffered so far, and no other step changes that
\* sequence (so the concatenation of the bulk requests is the receive sequence,
\* batch after batch and in order inside a batch); the channel's queue only
\* loses its head or gains a tail; and the records of one producer appear in
\* the requests in the order it created them.
C18_FlushOrdering ==
    /\ [][IF RecvStep THEN Handled' = Append(Handled, Head(chan))
                      ELSE Handled' = Handled]_vars
    /\ [][chan' # chan =>
            \/ (chan # <<>> /\ chan' = Tail(chan))
            \/ \E p \in Producers : ppc[p] = "send" /\ chan' = Append(chan, pmsg[p][1])]_vars
    /\ [](\A i, j \in DOMAIN Flatten(requests) :
            (i < j /\ Flatten(requests)[i].chat_id = Flatten(requests)[j].chat_id)
                => Flatten(requests)[i].message_id < Flatten(requests)[j].message_id)

\* Two producers interleave: a request holds records of both, a producer has
\* records in two requests, and a record created later was received earlier.
C18_Witness ==
    /\ \E r \in DOMAIN requests :
          Len(requests[r]) = 2 /\ requests[r][1].chat_id # requests[r][2].chat_id
    /\ \E r, q \in DOMAIN requests :
          r < q /\ requests[r][1].chat_id = requests[q][1].chat_id
    /\ \E i, j \in DOMAIN Flatten(requests) :
          i < j /\ Flatten(requests)[i].message_id > Flatten(requests)[j].message_id

(* -------------------- migration: the watermark query ------------------ *)

\* The run has issued no query to the legacy collection and no bulk request.
NothingIssued ==
    /\ cursor = {}
    /\ yielded = 0
    /\ batch = <<>>
    /\ batched = <<>>
    /\ counted = {}
    /\ attempts = <<>>
    /\ answers = <<>>
    /\ scope_log = <<>>
    /\ ~run_wrote

\* C19: a run whose aggregation query was answered 404 got the empty list
\* without an error, has ended successfully, and has issued no query to the
\* legacy collection and no bulk request; the index is still empty.
C19_MissingIndex ==
    resolved = "404" =>
        /\ groups = <<>>
        /\ run_faults = 0
        /\ mpc = "done"
        /\ NothingIssued
        /\ total_migrated = 0
        /\ total_errors = 0
        /\ DOMAIN store = {}

\* The query was answered 404 while the legacy collection holds text
\* messages, and the run has ended.
C19_Witness ==
    /\ resolved = "404"
    /\ mpc = "done"
    /\ \E d \in legacy : d.msg_type = 1 /\ parse_mongo_document(d).ok

\* C20: a run whose aggregation query failed or was answered with a
\* non-success status other than 404 got an error, has ended with that error,
\* and has issued no query to the legacy collection and no bulk request.
C20_ResolverError ==
    resolved = "err" =>
        /\ mpc = "failed"
        /\ run_faults >= 1
        /\ groups = <<>>
        /\ idx = 0
        /\ NothingIssued

\* The query failed while the index holds a watermark below which the legacy
\* collection has a text message to migrate.
C20_Witness ==
    /\ resolved = "err"
    /\ mpc = "failed"
    /\ \E g \in Buckets(store) : \E d \in legacy : Matches(d, g)

(* ---------------------- migration: running it again ------------------- *)

\* C21 as claimed: once a complete real run has ended without a failure and
\* without a counted error, no step of the next run over the same legacy
\* collection changes the index.
C21_RerunNoOp == [][(run = 2 /\ prev.clean) => store' = store]_vars

(* --------------------- migration: scopes and records ------------------ *)

\* count_documents answers in this step (the run neither fails nor is killed).
CountStep ==
    /\ mpc = "count"
    /\ mpc' \notin {"failed", "killed"}
    /\ (mpc' = "count" => idx' # idx)

\* C22: when count_documents answers 0 for a scope, the step opens no cursor,
\* builds no batch, hands nothing to bulk_index, leaves the index, the scope's
\* counters (zero), the totals and the report lines alone, and moves to the
\* next group, or to the final report after the last one; a finished run has
\* no "Group complete" line for such a scope.
C22_EmptyScope ==
    /\ [][(CountStep /\ Selected(groups[idx]) = {}) =>
            /\ cursor' = {} /\ batch' = <<>> /\ yielded' = 0
            /\ group_migrated = 0 /\ group_migrated' = 0
            /\ group_errors = 0 /\ group_errors' = 0
            /\ UNCHANGED <<batched, attempts, answers, counted, totals, store, writes>>
            /\ IF idx < Len(groups)
               THEN idx' = idx + 1 /\ mpc' = "count"
               ELSE mpc' = "done"]_vars
    /\ [](mpc = "done" =>
            \A j \in DOMAIN groups : Selected(groups[j]) = {} =>
                \A i \in DOMAIN scope_log : scope_log[i].chat_id # groups[j].chat_id)

\* The first group had no matching document and was skipped; the cursor of
\* the second group is open.
C22_Witness ==
    /\ idx = 2
    /\ mpc = "next"
    /\ cursor # {}
    /\ Selected(groups[1]) = {}
    /\ scope_log = <<>>
    /\ \E d \in legacy : d.group_id = groups[1].chat_id

\* The cursor yields document d in this step and parse_mongo_document
\* rejects it.
ParseFails(d) ==
    /\ mpc = "next"
    /\ d \in cursor
    /\ d \notin cursor'
    /\ yielded' = yielded + 1
    /\ faults' = faults
    /\ ~parse_mongo_document(d).ok

\* C23: a step in which a yielded document fails to parse adds exactly one to
\* group_errors, leaves the batch, the batched and submitted records, the
\* accepted count, the totals and the index alone, and leaves the cursor open
\* with every other document still to come.
C23_ParseFailure ==
    [][\A d \in cursor : ParseFails(d) =>
          /\ group_errors' = group_errors + 1
          /\ counted' = counted \cup {d}
          /\ cursor' = cursor \ {d}
          /\ mpc' = "next"
          /\ idx' = idx
          /\ UNCHANGED <<batch, batched, attempts, answers, group_migrated, totals,
                         store, writes>>]_vars

\* A record without a date was counted while the batch held an earlier
\* record, and a later record of the scope completed that batch.
C23_Witness ==
    /\ ~fetch_failed
    /\ \E d \in counted :
          /\ ~parse_mongo_document(d).ok
          /\ \E a \in DOMAIN attempts :
                /\ Len(attempts[a]) = 2
                /\ attempts[a][1].message_id < d.message_id
                /\ attempts[a][2].message_id > d.message_id

(* --------------------------- empty bulk requests ---------------------- *)

\* C24: no call of bulk_index and no bulk request of the migration has an
\* empty batch, bulk_index answers Ok(0) for an empty batch whatever the store
\* would say, and no bulk request of the live path, submitted or in flight, is
\* empty.
C24_NoEmptyBulk ==
    /\ \A i \in DOMAIN attempts : attempts[i] # <<>>
    /\ mpc \in {"bulk", "final_bulk"} => bulk_index_body(batch) # <<>>
    /\ \A o \in BulkOutcomes(0) : bulk_index(0, o) = [ok |-> TRUE, count |-> 0]
    /\ \A i \in DOMAIN requests : requests[i] # <<>>
    /\ fpc \in {"flush_recv", "flush_tick", "flush_closed"} => body # <<>>

\* Both paths have written: the tool ended a scope whose last full batch left
\* nothing for the final write, and flush_loop returned on the closed channel
\* with an empty buffer.
C24_Witness ==
    /\ mpc = "done"
    /\ Len(attempts) = 1
    /\ Len(attempts[1]) = m_batch_size
    /\ Len(batched) = m_batch_size
    /\ fpc = "returned"
    /\ Len(requests) = 1

(* ----------------------- live path: closed channel -------------------- *)

\* index returns to producer p from a send on the closed channel in this step.
ClosedSend(p) ==
    /\ ppc[p] = "send"
    /\ fpc \in {"returned", "cancelled"}
    /\ ppc'[p] # "send"

\* C25: a send on the closed channel makes index return to its caller, the
\* record is dropped, and the queue, the buffer, the requests, the index and
\* the other producers are as before; a record dropped this way is in no bulk
\* request, not queued, not buffered and not in the index.
C25_ClosedChannel ==
    /\ [][\A p \in Producers : ClosedSend(p) =>
            /\ ppc'[p] = "idle"
            /\ pmsg'[p] = <<>>
            /\ send_failed' = Append(send_failed, pmsg[p][1])
            /\ \A q \in Producers \ {p} : ppc'[q] = ppc[q] /\ pmsg'[q] = pmsg[q]
            /\ UNCHANGED <<tx_alive, chan, created, fpc, buffer, body, tick_ready,
                           requests, live_faults, store, writes>>]_vars
    /\ [](\A i \in DOMAIN send_failed :
            /\ CountIn(Flatten(requests), send_failed[i].message_id) = 0
            /\ CountIn(chan, send_failed[i].message_id) = 0
            /\ CountIn(buffer, send_failed[i].message_id) = 0
            /\ DocId(send_failed[i].chat_id, send_failed[i].message_id) \notin DOMAIN store)

\* The pipeline indexed a record, then the flush task was dropped, and a
\* producer's later send failed and returned.
C25_Witness ==
    /\ fpc = "cancelled"
    /\ DOMAIN store # {}
    /\ send_failed # <<>>
    /\ \A p \in Producers : ppc[p] = "idle"

(* ------------------------ live path: one writer ----------------------- *)

\* flush_loop awaits the answer of a bulk request.
InFlight == fpc \in {"flush_recv", "flush_tick", "flush_closed"}

\* C26: a bulk request is in flight exactly while flush_loop awaits
\* flush_buffer, and it is the last batch submitted, whole; while it is in
\* flight no record is received, no tick is handled, the buffer stays empty, no
\* other request is submitted and the body is only dropped at the answer.
C26_SingleWriter ==
    /\ [](InFlight <=> body # <<>>)
    /\ [](InFlight => /\ buffer = <<>>
                      /\ requests # <<>>
                      /\ body = BuildBody(requests[Len(requests)]))
    /\ [][InFlight =>
            /\ Len(chan') >= Len(chan)
            /\ tick_ready => tick_ready'
            /\ buffer' = <<>>
            /\ requests' = requests
            /\ body' = body \/ (body' = <<>> /\ ~InFlight')]_vars

\* A request is in flight while a record is queued and a tick is due.
C26_Witness ==
    /\ InFlight
    /\ chan # <<>>
    /\ tick_ready
    /\ Len(requests) >= 2

(* ----------------------- live path: bounded buffer -------------------- *)

\* C27: while flush_loop waits for an event the buffer holds fewer than
\* batch_size records; every request submitted carries between 1 and
\* batch_size records, and the request of a size-triggered flush exactly
\* batch_size.
C27_BoundedBuffer ==
    /\ batch_size >= 1
    /\ fpc \in {"first_tick", "select"} => Len(buffer) < batch_size
    /\ Len(buffer) <= batch_size
    /\ \A i \in DOMAIN requests :
          Len(requests[i]) >= 1 /\ Len(requests[i]) <= batch_size
    /\ fpc = "flush_recv" => Len(requests[Len(requests)]) = batch_size

\* flush_loop waits with one record buffered, after a size-triggered request
\* of two records and a request of one record.
C27_Witness ==
    /\ batch_size = 2
    /\ fpc = "select"
    /\ Len(buffer) = 1
    /\ \E i, j \in DOMAIN requests : Len(requests[i]) = 2 /\ Len(requests[j]) = 1

(* ------------------------ live path: the bulk body -------------------- *)

\* Largest buffer handed to flush_buffer on its own.
MaxBody == 3

\* The messages of these buffers: two chats, two message ids.
BodyMessages == {ChatMessage(c, n) : c \in Chats, n \in 1 .. 2}

\* The buffers, each with the positions whose serialization fails.
BodyInputs ==
    UNION {{[buffer |-> b, bad |-> S] : S \in SUBSET (1 .. k), b \in [1 .. k -> BodyMessages]}
             : k \in 0 .. MaxBody}

BodyInit ==
    /\ call_args \in BodyInputs
    /\ call_result = <<>>
    /\ send_failed = <<>>
    /\ BotParked
    /\ LiveParked
    /\ MigParked
    /\ IndexInit({EmptyStore})

\* flush_buffer builds the body of the buffer.
BuildBodies ==
    /\ call_result = <<>>
    /\ call_result' = <<flush_body(call_args.buffer, 1, call_args.bad)>>
    /\ UNCHANGED <<call_args, send_failed, liveVars, migVars, store, writes, botVars>>

BodyNext == BuildBodies

BodySpec == BodyInit /\ [][BodyNext]_vars

\* The body b consists of action/document pairs of one message each.
WellFormed(b) ==
    /\ Len(b) % 2 = 0
    /\ \A k \in 1 .. (Len(b) \div 2) :
          /\ b[2 * k - 1].line = "index"
          /\ b[2 * k].line = "doc"
          /\ b[2 * k - 1].id = DocId(b[2 * k].doc.chat_id, b[2 * k].doc.message_id)

\* C28 as claimed: the body flush_buffer builds is well formed, also when the
\* serialization of some message fails; when none fails it is the body of the
\* whole buffer.
C28_WellFormedBody ==
    call_result # <<>> =>
        /\ WellFormed(call_result[1])
        /\ call_args.bad = {} => call_result[1] = BuildBody(call_args.buffer)

(* ------------------------------- search ------------------------------- *)

\* Number of searches SearchClient::search issues in a run.
MaxQueries == 2
\* Largest page number a callback token carries.
MaxPage == 11
\* handle_search's default_page_size.
PageSize == 5

\* The numbers an "id:" prefix or the user field of a callback token carries;
\* -1 and 2 are also the ids of the two chats.
UserIds == {-1, 2}

\* str::parse::<usize>: the decimal numbers of the model, else an error.
ParseUsize(str) ==
    IF \E n \in 0 .. MaxPage : ToString(n) = str
    THEN <<CHOOSE n \in 0 .. MaxPage : ToString(n) = str>>
    ELSE <<>>

\* str::parse::<i64>: the decimal numbers of the model, else an error.
ParseI64(str) ==
    IF \E n \in UserIds : ToString(n) = str
    THEN <<CHOOSE n \in UserIds : ToString(n) = str>>
    ELSE <<>>

\* try_parse_id_prefix: strip "id:" and parse the rest.
try_parse_id_prefix(token) ==
    IF \E n \in UserIds : token = "id:" \o ToString(n)
    THEN <<CHOOSE n \in UserIds : token = "id:" \o ToString(n)>>
    ELSE <<>>

\* A query text is held as the parts query.splitn(2, ' ') yields; the text
\* itself is the parts joined by the blank.
Joined(parts) == IF Len(parts) = 2 THEN parts[1] \o " " \o parts[2] ELSE parts[1]

\* The query texts of the model: one word, an id prefix before or after the
\* word, two words, and the empty text.
QueryTexts == {<<"a">>, <<"id:2", "a">>, <<"a", "id:-1">>, <<"a", "b">>, <<"">>}

\* parse_search_query
parse_search_query(query, reply_user_id) ==
    IF Len(query) = 2 /\ try_parse_id_prefix(query[1]) # <<>>
    THEN [keyword |-> query[2], user_id |-> try_parse_id_prefix(query[1])]
    ELSE IF Len(query) = 2 /\ try_parse_id_prefix(query[2]) # <<>>
    THEN [keyword |-> query[1], user_id |-> try_parse_id_prefix(query[2])]
    ELSE [keyword |-> Joined(query), user_id |-> reply_user_id]

\* SearchState::decode of the fields data.split('|') yields.
decode(parts) ==
    IF Len(parts) # 4 THEN [ok |-> FALSE]
    ELSE IF ParseUsize(parts[1]) = <<>> THEN [ok |-> FALSE]
    ELSE IF parts[2] \notin {"t", "p", "v", "d", "-"} THEN [ok |-> FALSE]
    ELSE IF parts[3] \notin {"7", "3", "9", "-"} THEN [ok |-> FALSE]
    ELSE IF parts[4] # "-" /\ ParseI64(parts[4]) = <<>> THEN [ok |-> FALSE]
    ELSE [ok |-> TRUE,
          state |->
            [page |-> ParseUsize(parts[1])[1],
             message_type |->
                 IF parts[2] = "t" THEN <<"text">>
                 ELSE IF parts[2] = "p" THEN <<"photo">>
                 ELSE IF parts[2] = "v" THEN <<"video">>
                 ELSE IF parts[2] = "d" THEN <<"document">>
                 ELSE <<>>,
             date_range |->
                 IF parts[3] = "7" THEN <<"7d">>
                 ELSE IF parts[3] = "3" THEN <<"30d">>
                 ELSE IF parts[3] = "9" THEN <<"90d">>
                 ELSE <<>>,
             user_id |-> IF parts[4] = "-" THEN <<>> ELSE ParseI64(parts[4])]]

\* SearchState::to_date_from: now minus the range, as the bound's text.
to_date_from(state) ==
    IF state.date_range = <<>> THEN <<>> ELSE <<"now-" \o state.date_range[1]>>

\* SearchClient::build_query: the chat_id term always, then the optional user,
\* date and type filters; the keyword match, or match_all. Values are held as
\* their JSON text.
build_query(params) ==
    [must |->
        IF params.keyword # <<>> /\ params.keyword[1] # ""
        THEN <<[kind |-> "match", field |-> "text", value |-> params.keyword[1]]>>
        ELSE <<[kind |-> "match_all", field |-> "", value |-> ""]>>,
     filter |->
        <<[kind |-> "term", field |-> "chat_id", value |-> ToString(params.chat_id)]>>
        \o (IF params.user_id # <<>>
            THEN <<[kind |-> "term", field |-> "user_id",
                    value |-> ToString(params.user_id[1])]>>
            ELSE <<>>)
        \o (IF params.date_from # <<>> \/ params.date_to # <<>>
            THEN <<[kind |-> "range", field |-> "date",
                    value |-> (IF params.date_from # <<>>
                               THEN "gte:" \o params.date_from[1] ELSE "")
                              \o (IF params.date_to # <<>>
                                  THEN "lte:" \o params.date_to[1] ELSE "")]>>
            ELSE <<>>)
        \o (IF params.message_type # <<>>
            THEN <<[kind |-> "term", field |-> "message_type",
                    value |-> params.message_type[1]]>>
            ELSE <<>>)]

\* Elasticsearch's bool filter over the index st: a document is a hit only if
\* it satisfies every term clause on chat_id (the other clauses narrow further).
Hits(st, request) ==
    {st[k] : k \in {j \in DOMAIN st :
        \A i \in DOMAIN request.filter :
            request.filter[i].field = "chat_id"
                => ToString(st[j].chat_id) = request.filter[i].value}}

\* SearchClient::search as the history records it: the chat of the message
\* that triggered it, the handler, the request and the hits.
Searched(origin, via, params) ==
    [origin |-> origin, via |-> via,
     from |-> params.page * params.page_size, size |-> params.page_size,
     body |-> build_query(params),
     hits |-> Hits(store, build_query(params))]

\* handle_search's SearchParams: the chat of the command message.
SearchParams(chat, parsed) ==
    [chat_id |-> chat, keyword |-> <<parsed.keyword>>, user_id |-> parsed.user_id,
     date_from |-> <<>>, date_to |-> <<>>, message_type |-> <<>>,
     page |-> 0, page_size |-> PageSize]

\* Mutant: the chat is taken from the user field of the callback token.
CallbackParams_fromdata(chat, state, keyword) ==
    [chat_id |-> IF state.user_id # <<>> THEN state.user_id[1] ELSE chat,
     keyword |-> <<keyword>>, user_id |-> state.user_id,
     date_from |-> to_date_from(state), date_to |-> <<>>,
     message_type |-> state.message_type,
     page |-> state.page, page_size |-> PageSize]

\* handle_callback's SearchParams: the chat of the message the keyboard is
\* attached to, the rest from the decoded token and the original command.
CallbackParams(chat, state, keyword) ==
    [chat_id |-> chat, keyword |-> <<keyword>>, user_id |-> state.user_id,
     date_from |-> to_date_from(state), date_to |-> <<>>,
     message_type |-> state.message_type,
     page |-> state.page, page_size |-> PageSize]

\* extract_search_query: the text of the command message without its "/s "
\* or "/search " prefix.
extract_search_query(msg) == msg.query

\* The /search command in chat with the query text, sent as a reply to a
\* message of reply_user_id or to none; answered tells whether the search
\* succeeded. An empty query is answered with the usage text.
handle_search(chat, query, reply_user_id, answered) ==
    /\ Len(queries) < MaxQueries
    /\ IF Joined(query) = ""
       THEN UNCHANGED <<sent, queries>>
       ELSE /\ queries' = Append(queries,
                  Searched(chat, "search",
                      SearchParams(chat, parse_search_query(query, reply_user_id))))
            /\ sent' = IF answered
                       THEN sent \cup {[chat |-> chat, cmd |-> "/s ", query |-> query]}
                       ELSE sent
    /\ UNCHANGED <<user_cache, owner, keyboard, liveVars, migVars, store, writes, callVars>>

\* A callback query with the token fields data on the result message msg:
\* "noop" is only answered, a token that does not decode ends with the error.
handle_callback(msg, data, answered) ==
    /\ Len(queries) < MaxQueries
    /\ IF data = <<"noop">> \/ ~decode(data).ok
       THEN UNCHANGED queries
       ELSE queries' = Append(queries,
                Searched(msg.chat, "callback",
                    CallbackParams(msg.chat, decode(data).state,
                        parse_search_query(extract_search_query(msg), <<>>).keyword)))
    /\ UNCHANGED <<sent, user_cache, owner, keyboard, liveVars, migVars, store, writes, callVars>>

\* The fields of the callback tokens of the model: "noop", tokens of four
\* fields with valid and invalid codes, a user field that names a chat id,
\* and tokens with three and five fields.
CallbackData ==
    {<<"noop">>, <<"0", "-", "-">>, <<"0", "-", "-", "-", "2">>}
        \cup {<<pg, ty, dt, us>> : pg \in {"0", "1", "x"}, ty \in {"-", "p", "?"},
                                   dt \in {"-", "7"}, us \in {"-", "2", "-1"}}

\* The index holds a message of each chat; nothing was searched yet.
SearchInit ==
    /\ sent = {}
    /\ queries = <<>>
    /\ user_cache = NewCache
    /\ owner = <<>>
    /\ keyboard = <<>>
    /\ call_args = <<>>
    /\ call_result = <<>>
    /\ send_failed = <<>>
    /\ LiveParked
    /\ MigParked
    /\ IndexInit({StoreOf({ChatMessage(-1, 1), ChatMessage(2, 1)})})

SearchNext ==
    \/ \E chat \in Chats, query \in QueryTexts, u \in {<<>>, <<2>>}, a \in BOOLEAN :
          handle_search(chat, query, u, a)
    \/ \E msg \in sent, data \in CallbackData, a \in BOOLEAN :
          handle_callback(msg, data, a)

SearchSpec == SearchInit /\ [][SearchNext]_vars

\* C29: every search issued has the term filter on chat_id of the chat of the
\* message that triggered it, no chat_id filter of another chat, and no hit
\* from another chat, whatever the callback token and the query text carry.
C29_SearchConfined ==
    \A i \in DOMAIN queries :
        /\ \E k \in DOMAIN queries[i].body.filter :
              queries[i].body.filter[k] =
                  [kind |-> "term", field |-> "chat_id",
                   value |-> ToString(queries[i].origin)]
        /\ \A k \in DOMAIN queries[i].body.filter :
              queries[i].body.filter[k].field = "chat_id"
                  => queries[i].body.filter[k].value = ToString(queries[i].origin)
        /\ \A d \in queries[i].hits : d.chat_id = queries[i].origin

\* A callback on a result message of chat -1 whose token carries 2, the id of
\* the other chat, in its user field ran a search and had a hit.
C29_Witness ==
    \E i \in DOMAIN queries :
        /\ queries[i].via = "callback"
        /\ queries[i].origin = -1
        /\ \E k \in DOMAIN queries[i].body.filter :
              queries[i].body.filter[k].field = "user_id"
                  /\ queries[i].body.filter[k].value = "2"
        /\ queries[i].hits # {}

(* ----------------------------- user cache ----------------------------- *)

\* A username is held as its letters in lowercase and the positions that are
\* written in uppercase.
CasePositions == {1, 2}
Usernames == [base : {"al", "bo"}, caps : SUBSET CasePositions]

\* The texts resolve_username is asked for: a username after 0, 1 or 2 '@'.
Lookups == [ats : 0 .. 2, base : {"al", "bo"}, caps : SUBSET CasePositions]

\* str::to_lowercase
to_lowercase(name) == [base |-> name.base, caps |-> {}]

\* str::trim_start_matches('@')
trim_start_matches_at(text) == [base |-> text.base, caps |-> text.caps]

\* DashMap::insert and DashMap::remove
Inserted(map, key, value) ==
    [k \in DOMAIN map \cup {key} |-> IF k = key THEN value ELSE map[k]]
Removed(map, key) == [k \in DOMAIN map \ {key} |-> map[k]]

\* The username id_to_info holds for the user, <<>> when it holds none.
CachedUsername(cache, user_id) ==
    IF user_id \in DOMAIN cache.id_to_info
    THEN cache.id_to_info[user_id].username
    ELSE <<>>

\* Mutant: update leaves the old username's mapping in place.
update_keep(cache, user_id, username) ==
    [name_to_id |->
        IF username # <<>>
        THEN Inserted(cache.name_to_id, to_lowercase(username[1]), user_id)
        ELSE cache.name_to_id,
     id_to_info |->
        Inserted(cache.id_to_info, user_id, [display_name |-> "n", username |-> username])]

\* UserCache::update
update(cache, user_id, username) ==
    LET old == CachedUsername(cache, user_id)
        stale == /\ old # <<>>
                 /\ (username = <<>> \/ to_lowercase(old[1]) # to_lowercase(username[1]))
        kept == IF stale THEN Removed(cache.name_to_id, to_lowercase(old[1]))
                ELSE cache.name_to_id
    IN [name_to_id |->
            IF username # <<>>
            THEN Inserted(kept, to_lowercase(username[1]), user_id)
            ELSE kept,
        id_to_info |->
            Inserted(cache.id_to_info, user_id,
                     [display_name |-> "n", username |-> username])]

\* UserCache::resolve_username
resolve_username(cache, text) ==
    LET clean == to_lowercase(trim_start_matches_at(text)) IN
    IF clean \in DOMAIN cache.name_to_id THEN <<cache.name_to_id[clean]>> ELSE <<>>

\* A handler sees a message of the user and updates the cache; call_args keeps
\* the call and the username that was cached for the user before it.
Update(user_id, username) ==
    /\ call_args' = <<[user_id |-> user_id, username |-> username,
                       old |-> CachedUsername(user_cache, user_id)]>>
    /\ user_cache' = update(user_cache, user_id, username)
    /\ owner' = IF username # <<>>
                 THEN Inserted(owner, to_lowercase(username[1]), user_id)
                 ELSE owner
    /\ UNCHANGED <<sent, queries, keyboard, call_result, send_failed, liveVars,
                   migVars, store, writes>>

CacheInit ==
    /\ user_cache = NewCache
    /\ owner = <<>>
    /\ keyboard = <<>>
    /\ sent = {}
    /\ queries = <<>>
    /\ call_args = <<>>
    /\ call_result = <<>>
    /\ send_failed = <<>>
    /\ LiveParked
    /\ MigParked
    /\ IndexInit({EmptyStore})

CacheNext ==
    \E user_id \in UserIds, username \in {<<>>} \cup {<<n>> : n \in Usernames} :
        Update(user_id, username)

CacheSpec == CacheInit /\ [][CacheNext]_vars

\* The last update changed the user's username: one was cached, and the new
\* one is absent or differs from it in lowercase.
UsernameChanged ==
    /\ call_args # <<>>
    /\ call_args[1].old # <<>>
    /\ \/ call_args[1].username = <<>>
       \/ to_lowercase(call_args[1].old[1]) # to_lowercase(call_args[1].username[1])

\* C30: after an update that changed the user's username, the old username, in
\* any letter case and after any number of '@', no longer resolves to the
\* user, and the new one, if there is one, resolves to the user in any letter
\* case and after any number of '@'.
C30_UsernameChange ==
    UsernameChanged =>
        /\ \A text \in Lookups :
              text.base = call_args[1].old[1].base
                  => resolve_username(user_cache, text) # <<call_args[1].user_id>>
        /\ call_args[1].username # <<>> =>
              \A text \in Lookups :
                  text.base = call_args[1].username[1].base
                      => resolve_username(user_cache, text) = <<call_args[1].user_id>>

\* A user cached under a username with an uppercase letter has switched to
\* another username while another user is cached too.
C30_Witness ==
    /\ UsernameChanged
    /\ call_args[1].username # <<>>
    /\ call_args[1].old[1].caps # {}
    /\ \E other \in DOMAIN user_cache.id_to_info : other # call_args[1].user_id

\* The user who was most recently updated with the username and whose latest
\* update still carries it, <<>> when there is none.
LatestOwner(name) ==
    IF /\ to_lowercase(name) \in DOMAIN owner
       /\ CachedUsername(user_cache, owner[to_lowercase(name)]) # <<>>
       /\ to_lowercase(CachedUsername(user_cache, owner[to_lowercase(name)])[1])
              = to_lowercase(name)
    THEN <<owner[to_lowercase(name)]>>
    ELSE <<>>

\* C31: a username that has a latest owner resolves to that owner, in any
\* letter case and after any number of '@', also when the previous owner of
\* the username has changed their own username since.
C31_LatestOwner ==
    \A text \in Lookups :
        LatestOwner(trim_start_matches_at(text)) # <<>>
            => resolve_username(user_cache, text) = LatestOwner(trim_start_matches_at(text))

(* ------------------------- search-state tokens ------------------------- *)

\* A text is held as the sequence of its characters where the code formats or
\* splits it; Text gives the string.
RECURSIVE Text(_)
Text(chars) == IF chars = <<>> THEN "" ELSE chars[1] \o Text(Tail(chars))

\* usize's Display: the decimal digits, most significant first.
RECURSIVE Digits(_)
Digits(n) ==
    LET digit == <<"0", "1", "2", "3", "4", "5", "6", "7", "8", "9">>[(n % 10) + 1] IN
    IF n < 10 THEN <<digit>> ELSE Digits(n \div 10) \o <<digit>>

\* i64's Display (id.to_string()).
Display(i) == IF i < 0 THEN <<"-">> \o Digits(-i) ELSE Digits(i)

\* The search states of the claim: a page, a type or none, a range or none,
\* a user id or none.
SearchStates ==
    [page : 0 .. MaxPage,
     message_type : {<<>>, <<"text">>, <<"photo">>, <<"video">>, <<"document">>},
     date_range : {<<>>, <<"7d">>, <<"30d">>, <<"90d">>},
     user_id : {<<>>} \cup {<<u>> : u \in UserIds}]

\* Mutant: encode writes the code of "90d" for "30d".
encode_swapped(state) ==
    Digits(state.page) \o <<"|">>
        \o <<IF state.message_type = <<"text">> THEN "t"
             ELSE IF state.message_type = <<"photo">> THEN "p"
             ELSE IF state.message_type = <<"video">> THEN "v"
             ELSE IF state.message_type = <<"document">> THEN "d"
             ELSE "-">>
        \o <<"|">>
        \o <<IF state.date_range = <<"7d">> THEN "7"
             ELSE IF state.date_range = <<"30d">> THEN "9"
             ELSE IF state.date_range = <<"90d">> THEN "9"
             ELSE "-">>
        \o <<"|">>
        \o (IF state.user_id = <<>> THEN <<"-">> ELSE Display(state.user_id[1]))

\* SearchState::encode: "{page}|{type}|{date}|{user_id}".
encode(state) ==
    Digits(state.page) \o <<"|">>
        \o <<IF state.message_type = <<"text">> THEN "t"
             ELSE IF state.message_type = <<"photo">> THEN "p"
             ELSE IF state.message_type = <<"video">> THEN "v"
             ELSE IF state.message_type = <<"document">> THEN "d"
             ELSE "-">>
        \o <<"|">>
        \o <<IF state.date_range = <<"7d">> THEN "7"
             ELSE IF state.date_range = <<"30d">> THEN "3"
             ELSE IF state.date_range = <<"90d">> THEN "9"
             ELSE "-">>
        \o <<"|">>
        \o (IF state.user_id = <<>> THEN <<"-">> ELSE Display(state.user_id[1]))

\* str::split('|'): the fields between the separators, empty fields included;
\* a text without separator is one field.
RECURSIVE split(_)
split(chars) ==
    IF \A i \in DOMAIN chars : chars[i] # "|"
    THEN <<chars>>
    ELSE LET first == CHOOSE i \in DOMAIN chars :
                          chars[i] = "|" /\ \A j \in 1 .. (i - 1) : chars[j] # "|"
         IN <<SubSeq(chars, 1, first - 1)>> \o split(SubSeq(chars, first + 1, Len(chars)))

\* The fields of the token as decode and handle_callback read them.
Parts(chars) == [i \in DOMAIN split(chars) |-> Text(split(chars)[i])]

\* SearchState::decode of a token text.
decode_text(chars) == decode(Parts(chars))

\* Token texts that no encode produces: one to five fields, each empty or a
\* single character, joined by '|'.
TokenFields == {<<>>, <<"0">>, <<"-">>, <<"t">>, <<"?">>}
MaxFields == 5
RECURSIVE JoinFields(_)
JoinFields(fields) ==
    IF Len(fields) = 1 THEN fields[1]
    ELSE fields[1] \o <<"|">> \o JoinFields(Tail(fields))
TokenTexts ==
    UNION {{JoinFields(f) : f \in [1 .. n -> TokenFields]} : n \in 1 .. MaxFields}

\* The inputs: a search state to encode, or a token text as it arrives.
TokenInputs ==
    {[state |-> <<st>>, text |-> <<>>] : st \in SearchStates}
        \cup {[state |-> <<>>, text |-> t] : t \in TokenTexts}

\* A result message of chat -1 carries the keyboard; nothing was searched
\* since.
TokenInit ==
    /\ call_args \in TokenInputs
    /\ call_result = <<>>
    /\ send_failed = <<>>
    /\ sent = {[chat |-> -1, cmd |-> "/s ", query |-> <<"a">>]}
    /\ queries = <<>>
    /\ user_cache = NewCache
    /\ owner = <<>>
    /\ keyboard = <<>>
    /\ LiveParked
    /\ MigParked
    /\ IndexInit({StoreOf({ChatMessage(-1, 1), ChatMessage(2, 1)})})

\* The token the keyboard button carries: the encoded state, or the text.
Token == IF call_args.state # <<>> THEN encode(call_args.state[1]) ELSE call_args.text

\* build_keyboard encodes the state into a button; decode reads it back.
EncodeDecode ==
    /\ call_result = <<>>
    /\ call_args.state # <<>>
    /\ call_result' = <<[token |-> Token, decoded |-> decode_text(Token)]>>
    /\ UNCHANGED <<call_args, send_failed, liveVars, migVars, store, writes, botVars>>

\* decode reads a token text.
DecodeText ==
    /\ call_result = <<>>
    /\ call_args.state = <<>>
    /\ call_result' = <<[token |-> Token, decoded |-> decode_text(Token)]>>
    /\ UNCHANGED <<call_args, send_failed, liveVars, migVars, store, writes, botVars>>

TokenNext ==
    \/ EncodeDecode
    \/ DecodeText
    \/ \E msg \in sent, a \in BOOLEAN : handle_callback(msg, Parts(Token), a)

TokenSpec == TokenInit /\ [][TokenNext]_vars

\* The text does not have exactly four fields, or its type or date field is
\* not one of the codes.
Malformed(chars) ==
    \/ Len(split(chars)) # 4
    \/ split(chars)[2] \notin {<<"t">>, <<"p">>, <<"v">>, <<"d">>, <<"-">>}
    \/ split(chars)[3] \notin {<<"7">>, <<"3">>, <<"9">>, <<"-">>}

\* C32: decode(encode(s)) succeeds and equals s for every search state of the
\* claim; decode fails for every text that does not have exactly four
\* '|'-separated fields or has an unknown type or date code, and a callback
\* with such a text runs no search.
C32_TokenRoundTrip ==
    /\ [](call_result # <<>> =>
            /\ call_args.state # <<>> =>
                  /\ call_result[1].decoded.ok
                  /\ call_result[1].decoded.state = call_args.state[1]
            /\ Malformed(call_result[1].token) => ~call_result[1].decoded.ok)
    /\ [][Malformed(Token) => queries' = queries]_vars

\* A state on a two-digit page with a type, a range and the negative user id
\* was encoded and decoded.
C32_Witness ==
    /\ call_result # <<>>
    /\ call_args.state # <<>>
    /\ call_args.state[1].page >= 10
    /\ call_args.state[1].message_type = <<"document">>
    /\ call_args.state[1].date_range = <<"30d">>
    /\ call_args.state[1].user_id = <<-1>>
    /\ Len(call_result[1].token) = 9

(* ------------------------------ keyboard ------------------------------ *)

\* Largest number of documents Elasticsearch reports as the total of a search.
MaxTotal == 16

\* SearchClient::parse_response: the page as asked for, and the pages the
\* total makes.
parse_response(total, page, page_size) ==
    [total |-> total, page |-> page,
     total_pages |-> IF total = 0 THEN 0
                     ELSE (total + page_size - 1) \div page_size]

\* InlineKeyboardButton::callback: kind and key tell the button's place in the
\* keyboard, data is its callback token.
Button(kind, key, data) == [kind |-> kind, key |-> key, data |-> data]

\* build_keyboard: the navigation row when there is more than one page, the
\* date row, and the type row unless the search is filtered by user.
build_keyboard(result, state, has_user_filter) ==
    (IF result.total_pages > 1
     THEN <<(IF result.page > 0
             THEN <<Button("prev", "", encode([state EXCEPT !.page = result.page - 1]))>>
             ELSE <<>>)
            \o <<Button("noop", "", <<"n", "o", "o", "p">>)>>
            \o (IF result.page + 1 < result.total_pages
                THEN <<Button("next", "", encode([state EXCEPT !.page = result.page + 1]))>>
                ELSE <<>>)>>
     ELSE <<>>)
    \o <<[i \in 1 .. 4 |->
            LET key == <<"7d", "30d", "90d", "all">>[i] IN
            Button("date", key,
                   encode([page |-> 0,
                           message_type |-> state.message_type,
                           date_range |-> IF key = "all" THEN <<>> ELSE <<key>>,
                           user_id |-> state.user_id]))]>>
    \o (IF ~has_user_filter
        THEN <<[i \in 1 .. 4 |->
                  LET key == <<"text", "photo", "video", "document">>[i]
                      active == state.message_type = <<key>>
                  IN Button("type", key,
                            encode([page |-> 0,
                                    message_type |-> IF active THEN <<>> ELSE <<key>>,
                                    date_range |-> state.date_range,
                                    user_id |-> state.user_id]))]>>
        ELSE <<>>)

\* The result message with its keyboard.
Shown(total, state) ==
    <<[result |-> parse_response(total, state.page, PageSize),
       state |-> state,
       rows |-> build_keyboard(parse_response(total, state.page, PageSize), state,
                               state.user_id # <<>>)]>>

\* The buttons of the keyboard on display.
Buttons ==
    IF keyboard = <<>> THEN {}
    ELSE UNION {{keyboard[1].rows[r][b] : b \in DOMAIN keyboard[1].rows[r]} :
                    r \in DOMAIN keyboard[1].rows}

\* handle_search answers with the first page of total results, unfiltered or
\* filtered by the user of the query.
ShowSearch(total, user_id) ==
    /\ keyboard' = Shown(total, [page |-> 0, message_type |-> <<>>,
                                 date_range |-> <<>>, user_id |-> user_id])
    /\ UNCHANGED <<sent, queries, user_cache, owner, liveVars, migVars, store, writes,
                   callVars>>

\* The filters of the two states are the same.
SameFilters(a, b) ==
    /\ a.message_type = b.message_type
    /\ a.date_range = b.date_range
    /\ a.user_id = b.user_id

\* handle_callback for a button of the keyboard on display: "noop" is only
\* answered; otherwise the token is decoded, the search run for its page and
\* the message edited. Documents are only added to the index, so the total of
\* the same filters does not shrink, unless the date range, which is counted
\* back from now, has moved on.
PressButton(button, total) ==
    /\ button \in Buttons
    /\ IF button.kind = "noop" \/ ~decode_text(button.data).ok
       THEN UNCHANGED keyboard
       ELSE /\ (SameFilters(decode_text(button.data).state, keyboard[1].state)
                    /\ keyboard[1].state.date_range = <<>>)
                  => total >= keyboard[1].result.total
            /\ keyboard' = Shown(total, decode_text(button.data).state)
    /\ UNCHANGED <<sent, queries, user_cache, owner, liveVars, migVars, store, writes,
                   callVars>>

\* The bot runs; no search was answered yet.
KeyboardInit ==
    /\ keyboard = <<>>
    /\ sent = {}
    /\ queries = <<>>
    /\ user_cache = NewCache
    /\ owner = <<>>
    /\ call_args = <<>>
    /\ call_result = <<>>
    /\ send_failed = <<>>
    /\ LiveParked
    /\ MigParked
    /\ IndexInit({EmptyStore})

KeyboardNext ==
    \/ \E total \in 0 .. MaxTotal, user_id \in {<<>>} \cup {<<u>> : u \in UserIds} :
          ShowSearch(total, user_id)
    \/ \E button \in Buttons, total \in 0 .. MaxTotal : PressButton(button, total)

KeyboardSpec == KeyboardInit /\ [][KeyboardNext]_vars

\* C33: on the keyboard of a result on page p of total_pages, a previous
\* button exists only if total_pages > 1 and p > 0 and encodes page p - 1, a
\* next button only if p + 1 < total_pages and encodes page p + 1, both with
\* the filters of the state; a date or type button encodes page 0 and changes
\* only its own filter, the active type button clearing the type; and every
\* page a navigation button encodes lies in 0 .. total_pages - 1.
C33_KeyboardTransitions ==
    \A button \in Buttons :
        LET p == keyboard[1].result.page
            total_pages == keyboard[1].result.total_pages
            state == keyboard[1].state
            to == decode_text(button.data)
        IN /\ button.kind = "prev" =>
                 /\ total_pages > 1 /\ p > 0
                 /\ to.ok /\ to.state = [state EXCEPT !.page = p - 1]
           /\ button.kind = "next" =>
                 /\ p + 1 < total_pages
                 /\ to.ok /\ to.state = [state EXCEPT !.page = p + 1]
           /\ button.kind = "date" =>
                 /\ to.ok /\ to.state.page = 0
                 /\ to.state.message_type = state.message_type
                 /\ to.state.user_id = state.user_id
                 /\ to.state.date_range =
                        (IF button.key = "all" THEN <<>> ELSE <<button.key>>)
           /\ button.kind = "type" =>
                 /\ to.ok /\ to.state.page = 0
                 /\ to.state.date_range = state.date_range
                 /\ to.state.user_id = state.user_id
                 /\ to.state.message_type =
                        (IF state.message_type = <<button.key>> THEN <<>>
                         ELSE <<button.key>>)
           /\ button.kind \in {"prev", "next"} =>
                 to.ok /\ to.state.page \in 0 .. (total_pages - 1)
====
